---- MODULE Spec2Model ----
(***************************************************************************)
(* Model of the recipe recommendation service.                             *)
(*                                                                         *)
(* server/src/services/recommendationEngine.ts: RecommendationEngine       *)
(* (validateInputs, normalizeIngredients, getRecommendations,              *)
(* callPythonModel, getRecommendationsWithRetry, sleep) and the singleton  *)
(* recommendationEngine shared by all requests.                            *)
(*                                                                         *)
(* Node runs one handler at a time: an action of this model is one turn of *)
(* the event loop (the handler of a timer or of a child process event)     *)
(* together with the promise continuations it triggers, up to the next     *)
(* suspension on a timer or on a child process.                            *)
(***************************************************************************)
EXTENDS Integers, Sequences, FiniteSets, TLC

\* ------------------------------------------------------------------ bounds

\* The number of requests in flight at the same time.
NumReqs == 2

\* The largest maxRetries a caller passes.
MaxRetriesBound == 2

\* The largest number of recipes in the corpus of the lightweight engine.
MaxCorpus == 3

\* The largest number of ingredients in a query of the lightweight engine.
MaxQueryLen == 2

\* The largest number of calls made on one lightweight engine.
MaxLexCalls == 3

\* ------------------------------------------------------- program constants

DEFAULT_TOP_K == 5
DEFAULT_MAX_RETRIES == 2
MAX_TOP_K == 100
BACKOFF_BASE_MS == 1000
APP_MAX_RETRIES == 2
APP_BASE_DELAY == 1000

Reqs == 1..NumReqs

\* ------------------------------------------------------------- JS values
\* A JavaScript value of an argument that is declared a number: its runtime
\* type, whether it is NaN, and its value in tenths (v10 = 10 * value).

Tenths(n) == [type |-> "number", nan |-> FALSE, v10 |-> n]
Num(n) == Tenths(10 * n)
NaN == [type |-> "number", nan |-> TRUE, v10 |-> 0]
Undefined == [type |-> "undefined", nan |-> FALSE, v10 |-> 0]
StringValue == [type |-> "string", nan |-> FALSE, v10 |-> 0]

\* Number.isInteger(x)
IsInteger(x) == x.type = "number" /\ ~x.nan /\ x.v10 % 10 = 0

\* x < n and x > n for a number x (every comparison with NaN is false);
\* n10 is n in tenths.
NumLess(x, n10) == x.type = "number" /\ ~x.nan /\ x.v10 < n10
NumGreater(x, n10) == x.type = "number" /\ ~x.nan /\ x.v10 > n10

\* A default parameter value applies when the argument is undefined.
OrDefault(x, d) == IF x.type = "undefined" THEN d ELSE x

\* --------------------------------------------------------------- strings
\* A string is a sequence of characters: a blank, the letters "a" and "b"
\* with their upper case forms "A" and "B", and letters without one.

Str(s) == [type |-> "string", s |-> s]
NullItem == [type |-> "null", s |-> <<>>]
NumberItem == [type |-> "number", s |-> <<>>]

IsSpace(c) == c = " "
LowerChar(c) == IF c = "A" THEN "a" ELSE IF c = "B" THEN "b" ELSE c

\* String.prototype.toLowerCase
ToLowerCase(s) == [i \in 1..Len(s) |-> LowerChar(s[i])]

RECURSIVE TrimStart(_)
TrimStart(s) == IF s # <<>> /\ IsSpace(Head(s)) THEN TrimStart(Tail(s)) ELSE s

RECURSIVE TrimEnd(_)
TrimEnd(s) ==
    IF s # <<>> /\ IsSpace(s[Len(s)]) THEN TrimEnd(SubSeq(s, 1, Len(s) - 1)) ELSE s

\* A trim that removes one blank at most from either end.
TrimOne(s) ==
    LET t == IF s # <<>> /\ IsSpace(Head(s)) THEN Tail(s) ELSE s IN
    IF t # <<>> /\ IsSpace(t[Len(t)]) THEN SubSeq(t, 1, Len(t) - 1) ELSE t

\* String.prototype.trim
Trim(s) == TrimEnd(TrimStart(s))

\* ----------------------------------------------------------- ingredients
\* The ingredients argument: null/undefined, a value that is no array, or an
\* array of items; an item is a string or a value of another type.

NullIngredients == [kind |-> "null", items |-> <<>>]
NotAnArray == [kind |-> "object", items |-> <<>>]
Arr(items) == [kind |-> "array", items |-> items]

\* ------------------------------------------------------------ validateInputs

NoThrow == ""

\* ingredients.some((ing) => !ing || typeof ing !== "string" || ing.trim().length === 0)
HasInvalidIngredient(items) ==
    \E i \in 1..Len(items) :
        \/ items[i].type # "string"
        \/ items[i].s = <<>>
        \/ Len(Trim(items[i].s)) = 0

\* !Number.isInteger(topK) || topK <= 0
TopKNotPositiveInteger(topK) == ~IsInteger(topK) \/ ~NumGreater(topK, 0)

\* typeof minScore !== "number" || minScore < 0 || minScore > 1
MinScoreRejected(minScore) ==
    \/ minScore.type # "number"
    \/ NumLess(minScore, 0)
    \/ NumGreater(minScore, 10)

\* validateInputs: the message of the Error it throws, NoThrow when it returns.
ValidateInputs(ingredients, topK, minScore) ==
    IF ingredients.kind # "array"
        THEN "Ingredients must be a non-empty array"
    ELSE IF Len(ingredients.items) = 0
        THEN "At least one ingredient must be provided"
    ELSE IF HasInvalidIngredient(ingredients.items)
        THEN "All ingredients must be non-empty strings"
    ELSE IF TopKNotPositiveInteger(topK)
        THEN "topK must be a positive integer"
    ELSE IF NumGreater(topK, 10 * MAX_TOP_K)
        THEN "topK cannot exceed 100"
    ELSE IF MinScoreRejected(minScore)
        THEN "minScore must be a number between 0 and 1"
    ELSE NoThrow

\* ------------------------------------------------------ normalizeIngredients

\* The array as it is, duplicates kept.
KeepDuplicates(xs, seen) == xs

\* Array.from(new Set(xs)): the first occurrence of every element, in order.
RECURSIVE Dedup(_, _)
Dedup(xs, seen) ==
    IF xs = <<>> THEN <<>>
    ELSE IF Head(xs) \in seen THEN Dedup(Tail(xs), seen)
    ELSE <<Head(xs)>> \o Dedup(Tail(xs), seen \cup {Head(xs)})

\* normalizeIngredients: trim and lower-case, drop the empty, remove duplicates.
NormalizeIngredients(items) ==
    LET mapped == [i \in 1..Len(items) |-> ToLowerCase(Trim(items[i].s))]
        filtered == SelectSeq(mapped, LAMBDA s : Len(s) > 0)
    IN  Dedup(filtered, {})

\* ------------------------------------------------------------- responses
\* A RecommendationResponse. The error is the list of the parts its text is
\* built from, <<>> when the field is absent.

NoError == <<>>

\* The object getRecommendations and getRecommendationsWithRetry build on a
\* failure: success false, count 0, no recommendations, the raw query.
FailureResponse(ingredients, error) ==
    [success |-> FALSE, count |-> 0, recommendations |-> <<>>,
     query |-> ingredients, error |-> error]

NoResponse == FailureResponse(NullIngredients, <<"(no response)">>)

\* `Failed after ${maxRetries + 1} attempts: ${lastError?.message}`
ExhaustedError(maxRetries, lastMessage) ==
    <<"Failed after ", ToString(maxRetries + 1), " attempts: ", lastMessage>>

\* What the Python process of request r, invocation i, prints for the cleaned
\* ingredients: a successful response carrying one recipe whose id names the
\* process that produced it.
PythonResponse(cleaned, r, i) ==
    [success |-> TRUE, count |-> 1, recommendations |-> <<100 * r + i>>,
     query |-> Arr([k \in 1..Len(cleaned) |-> Str(cleaned[k])]),
     error |-> NoError]

\* Math.pow(2, attempt)
\* A backoff that does not grow.
ConstantBackoff(n) == 1

RECURSIVE Pow2(_)
Pow2(n) == IF n <= 0 THEN 1 ELSE 2 * Pow2(n - 1)

\* ------------------------------------------------------------------ state

\* What a matching process does first, as its promise sees it: "ok" closes
\* with code 0 after printing its JSON, "garbage" closes with code 0 after
\* printing text that is no JSON, "exit1" closes with a non-zero code,
\* "nostart" emits 'error', "timeout" is still running when the timer fires.
Outcomes == {"ok", "garbage", "exit1", "nostart", "timeout"}

VARIABLES
    pc,           \* per request: "idle", "await", "sleep", "done", "thrown"
    args,         \* per request: the arguments, defaults applied
    plan,         \* per request: what its i-th matching process will do
    attempt,      \* per request: the loop variable of getRecommendationsWithRetry
    lastError,    \* per request: the message of lastError, "" for null
    result,       \* per request: the response returned to the caller
    invocations,  \* per request: calls of getRecommendations made so far
    sleeps,       \* per request: the backoff waits started so far, in ms
    children,     \* per request: its callPythonModel invocations, in order
    http,         \* per request: the HTTP exchange that made the call, if any
    recipes,      \* the corpus of the lightweight engine (this.recipes)
    lexCalls,     \* the calls of the lightweight engine so far, with their ends
    input,        \* the state of the client's IngredientInput component
    app,          \* the state of the client's App component
    retry         \* the client's invocation of withRetry, if any

vars ==
    <<pc, args, plan, attempt, lastError, result, invocations, sleeps, children,
      http, recipes, lexCalls, input, app, retry>>

\* The state of the lightweight engine.
lexVars == <<recipes, lexCalls>>

\* The state of the browser client.
clientVars == <<input, app, retry>>

\* The state of the retrying service and of its matching processes.
serviceVars ==
    <<pc, args, plan, attempt, lastError, result, invocations, sleeps, children>>

\* The state of the server.
serverVars == <<serviceVars, http, lexVars>>

NoArgs ==
    [ingredients |-> NullIngredients, topK |-> Undefined, minScore |-> Undefined,
     maxRetries |-> 0]

\* No call of getRecommendationsWithRetry has been made.
InitService ==
    /\ pc = [r \in Reqs |-> "idle"]
    /\ args = [r \in Reqs |-> NoArgs]
    /\ plan = [r \in Reqs |-> <<>>]
    /\ attempt = [r \in Reqs |-> 0]
    /\ lastError = [r \in Reqs |-> ""]
    /\ result = [r \in Reqs |-> NoResponse]
    /\ invocations = [r \in Reqs |-> 0]
    /\ sleeps = [r \in Reqs |-> <<>>]
    /\ children = [r \in Reqs |-> <<>>]

\* req.body: keys is the number of its own keys, a field that is absent is
\* NullIngredients or Undefined.
Body(ingredients, top_k, min_score) ==
    [keys |-> (IF ingredients.kind = "null" THEN 0 ELSE 1)
                  + (IF top_k.type = "undefined" THEN 0 ELSE 1)
                  + (IF min_score.type = "undefined" THEN 0 ELSE 1),
     ingredients |-> ingredients, top_k |-> top_k, min_score |-> min_score]

\* The body {} that express.json() leaves for a request without content.
EmptyBody == Body(NullIngredients, Undefined, Undefined)

\* An HTTP exchange: "none" when the call is made by a caller other than the
\* controller, "pending" while the controller awaits the service, "sent" once
\* res.status(..).json(..) has run; sends counts those calls.
NoHttp ==
    [state |-> "none", request |-> EmptyBody, sends |-> 0, status |-> 0,
     body |-> NoResponse]

\* An error of the client: an ApiError with its statusCode (0 when it has
\* none), an Error of another class, a thrown value that is no Error, or null.
ApiError(message, statusCode) ==
    [kind |-> "ApiError", message |-> message, statusCode |-> statusCode]
OtherError(kind, message) == [kind |-> kind, message |-> message, statusCode |-> 0]
NotAnError == [kind |-> "value", message |-> "", statusCode |-> 0]
NullError == [kind |-> "null", message |-> "", statusCode |-> 0]

\* The body of a response as the client reads it: success, recommendations
\* (the ids of the recipes; listed is whether the field is there) and error
\* ("" when the field is absent).
Data(success, listed, recommendations, error) ==
    [success |-> success, listed |-> listed,
     recommendations |-> recommendations, error |-> error]
NoData == Data(FALSE, FALSE, <<>>, "")

\* useState of IngredientInput: "", [], "".
InitialInput == [currentInput |-> <<>>, ingredients |-> <<>>, error |-> ""]

\* A value of App's error state: null, or a message.
Null == [isNull |-> TRUE, message |-> ""]
Message(m) == [isNull |-> FALSE, message |-> m]

\* useState of App: [], [], false, null, false.
InitialApp ==
    [ingredients |-> <<>>, recipes |-> <<>>, isLoading |-> FALSE,
     error |-> Null, hasSearched |-> FALSE]

\* No invocation of withRetry: pc is "idle", then "calling" while fn() is
\* awaited, "waiting" during a backoff, "returned" or "threw" at the end.
NoRetry ==
    [pc |-> "idle", caller |-> "none", maxRetries |-> 0, baseDelay |-> 0,
     attempt |-> 0, calls |-> 0, waits |-> <<>>, lastError |-> NullError,
     value |-> NoData, thrown |-> NullError]

\* The client at its first render: the initial values of every useState.
InitClient ==
    /\ input = InitialInput
    /\ app = InitialApp
    /\ retry = NoRetry

\* The server as app.ts builds it: the controller uses the singleton
\* recommendationEngine, no LightweightRecommendationEngine is constructed.
Init ==
    /\ InitService
    /\ http = [r \in Reqs |-> NoHttp]
    /\ recipes = <<>>
    /\ lexCalls = <<>>
    /\ InitClient

\* ------------------------------------------------- promises and outcomes

\* How the promise of callPythonModel settles: resolved with a response, or
\* rejected with an Error of the given message.
Resolved(response) == [ok |-> TRUE, value |-> response, message |-> ""]
Rejected(message) == [ok |-> FALSE, value |-> NoResponse, message |-> message]

\* How a call of getRecommendations ends: it returns a response, or it
\* throws (its promise rejects with) an Error of the given message.
Returns(response) == [threw |-> FALSE, value |-> response, message |-> ""]
Throws(message) == [threw |-> TRUE, value |-> NoResponse, message |-> message]

\* getRecommendations returning a resolved value with its recommendations
\* dropped.
GetRecommendationsEmptied(ar, settle) ==
    IF settle.ok
        THEN Returns([settle.value EXCEPT !.recommendations = <<>>, !.count = 0])
        ELSE Returns(FailureResponse(ar.ingredients, <<settle.message>>))

\* getRecommendations after callPythonModel has settled: the value is
\* returned as it is, a rejection is caught and turned into a failure response
\* that echoes the raw ingredients.
GetRecommendationsAfterModel(ar, settle) ==
    IF settle.ok
        THEN Returns(settle.value)
        ELSE Returns(FailureResponse(ar.ingredients, <<settle.message>>))

\* JSON.parse(stdoutData) in the 'close' handler: the data parse when they
\* are exactly one JSON document.
ParseStdout(data) ==
    IF Len(data) = 1 /\ data[1].valid
        THEN Resolved(data[1].doc)
        ELSE Rejected("Failed to parse recommendation results")

\* The 'close' handler's settlement for exit code `code`.
CloseSettlement(code, data) ==
    IF code # 0
        THEN Rejected("Python process exited with code 1: ")
        ELSE ParseStdout(data)

\* ------------------------------------------------------- the controller
\* server/src/controllers/recommendationController.ts: getRecommendations,
\* the handler of POST /api/recommendations.

\* A value that || replaces by its right operand.
Falsy(x) ==
    \/ x.type \in {"undefined", "null"}
    \/ x.type = "number" /\ (x.nan \/ x.v10 = 0)

\* x || d
OrElse(x, d) == IF Falsy(x) THEN d ELSE x

\* The checks of the handler, in their order: the error of the 400 response
\* it sends, NoThrow when the request goes on to the service.
ControllerCheck(body) ==
    LET topK == OrElse(body.top_k, Num(DEFAULT_TOP_K))
        minScore == OrElse(body.min_score, Num(0))
    IN  IF body.keys = 0
            THEN "Request body is required"
        ELSE IF body.ingredients.kind = "null"
            THEN "ingredients field is required"
        ELSE IF body.ingredients.kind # "array"
            THEN "ingredients must be an array"
        ELSE IF Len(body.ingredients.items) = 0
            THEN "At least one ingredient is required"
        ELSE IF topK.type # "number" \/ TopKNotPositiveInteger(topK)
            THEN "top_k must be a positive integer"
        ELSE IF MinScoreRejected(minScore)
            THEN "min_score must be a number between 0 and 1"
        ELSE NoThrow

\* The query the 400 response echoes: [] for the first four checks, the
\* ingredients for the checks of top_k and min_score.
RejectedQuery(body) ==
    IF body.keys = 0 \/ body.ingredients.kind # "array"
           \/ Len(body.ingredients.items) = 0
        THEN Arr(<<>>)
        ELSE body.ingredients

\* res.status(status).json(body)
SendJson(h, status, body) ==
    [h EXCEPT !.state = "sent", !.sends = @ + 1, !.status = status, !.body = body]

\* The handler answering 200 with whatever the service returned.
ControllerAlways200(h, ended, res, ingredients) ==
    IF ended \in {"done", "thrown"} THEN SendJson(h, 200, res) ELSE h

\* The handler after its await: 200 with a successful result, 500 with a
\* failed one, and the catch block's 500 when the service threw.
ControllerAfterAwait(h, ended, res, ingredients) ==
    IF ended = "done"
        THEN SendJson(h, IF res.success THEN 200 ELSE 500, res)
    ELSE IF ended = "thrown"
        THEN SendJson(h, 500, FailureResponse(ingredients, <<"error.message">>))
    ELSE h

\* A caller that never answers once it has awaited.
CallerSilent(r) == UNCHANGED http

\* The continuation of the caller of getRecommendationsWithRetry, in the turn
\* in which the call of request r ends: the controller, when it made the
\* call, sends its response.
CallerContinues(r) ==
    http' = IF http[r].state = "pending"
               THEN [http EXCEPT ![r] =
                        ControllerAfterAwait(@, pc'[r], result'[r],
                                             args[r].ingredients)]
               ELSE http

\* ------------------------------------------- getRecommendationsWithRetry

\* The return after the loop: all retries exhausted.
ExhaustedResponse(ar, lastMessage) ==
    FailureResponse(ar.ingredients, ExhaustedError(ar.maxRetries, lastMessage))

\* AfterAttempt without the catch block: a throw of the attempt leaves
\* getRecommendationsWithRetry.
AfterAttemptUncaught(r, a, ar, out) ==
    IF ~out.threw
        THEN /\ pc' = [pc EXCEPT ![r] = "done"]
             /\ result' = [result EXCEPT ![r] = out.value]
             /\ attempt' = [attempt EXCEPT ![r] = a]
             /\ UNCHANGED <<lastError, sleeps>>
        ELSE /\ pc' = [pc EXCEPT ![r] = "thrown"]
             /\ attempt' = [attempt EXCEPT ![r] = a]
             /\ UNCHANGED <<lastError, result, sleeps>>

\* The retry loop once attempt `a` of request r has ended with `out`: a
\* returned value is returned to the caller; a throw is caught, kept as
\* lastError, and followed by a backoff sleep when attempts remain, by the
\* return after the loop otherwise.
AfterAttempt(r, a, ar, out) ==
    IF ~out.threw
        THEN /\ pc' = [pc EXCEPT ![r] = "done"]
             /\ result' = [result EXCEPT ![r] = out.value]
             /\ attempt' = [attempt EXCEPT ![r] = a]
             /\ UNCHANGED <<lastError, sleeps>>
    ELSE IF a < ar.maxRetries
        THEN /\ pc' = [pc EXCEPT ![r] = "sleep"]
             /\ lastError' = [lastError EXCEPT ![r] = out.message]
             /\ sleeps' = [sleeps EXCEPT ![r] = Append(@, Pow2(a) * BACKOFF_BASE_MS)]
             /\ attempt' = [attempt EXCEPT ![r] = a]
             /\ UNCHANGED result
    ELSE /\ pc' = [pc EXCEPT ![r] = "done"]
         /\ lastError' = [lastError EXCEPT ![r] = out.message]
         /\ result' = [result EXCEPT ![r] = ExhaustedResponse(ar, out.message)]
         /\ attempt' = [attempt EXCEPT ![r] = a + 1]
         /\ UNCHANGED sleeps

\* callPythonModel up to the return of its promise: the process is spawned,
\* the cleaned ingredients are written to its stdin, the timer is armed.
NewChild(cleaned) ==
    [proc |-> "running", timer |-> "armed", promise |-> "pending",
     stdin |-> cleaned, printed |-> FALSE, stdoutData |-> <<>>,
     settledBy |-> "none"]

\* What the matching processes of request r will do, one outcome per
\* invocation: fixed when its first process is spawned.
PlanChoices(r, ar, outcomes) ==
    IF plan[r] = <<>> THEN [1..(ar.maxRetries + 1) -> outcomes] ELSE {plan[r]}

\* RunAttempt with the process spawned before the arguments are validated.
RunAttemptSpawnFirst(r, a, ar, outcomes) ==
    LET err == ValidateInputs(ar.ingredients, ar.topK, ar.minScore) IN
    /\ invocations' = [invocations EXCEPT ![r] = @ + 1]
    /\ children' = [children EXCEPT ![r] =
           Append(@, NewChild(NormalizeIngredients(ar.ingredients.items)))]
    /\ \E pl \in PlanChoices(r, ar, outcomes) : plan' = [plan EXCEPT ![r] = pl]
    /\ IF err # NoThrow
          THEN AfterAttempt(r, a, ar, Throws(err))
          ELSE /\ pc' = [pc EXCEPT ![r] = "await"]
               /\ attempt' = [attempt EXCEPT ![r] = a]
               /\ UNCHANGED <<lastError, result, sleeps>>

\* One call of getRecommendations by the loop, attempt `a`: validateInputs
\* throws out of it, or the ingredients are normalized and the model is called
\* and awaited.
RunAttempt(r, a, ar, outcomes) ==
    LET err == ValidateInputs(ar.ingredients, ar.topK, ar.minScore) IN
    /\ invocations' = [invocations EXCEPT ![r] = @ + 1]
    /\ IF err # NoThrow
          THEN /\ AfterAttempt(r, a, ar, Throws(err))
               /\ UNCHANGED <<children, plan>>
          ELSE /\ children' = [children EXCEPT ![r] =
                      Append(@, NewChild(NormalizeIngredients(ar.ingredients.items)))]
               /\ \E pl \in PlanChoices(r, ar, outcomes) :
                      plan' = [plan EXCEPT ![r] = pl]
               /\ pc' = [pc EXCEPT ![r] = "await"]
               /\ attempt' = [attempt EXCEPT ![r] = a]
               /\ UNCHANGED <<lastError, result, sleeps>>

\* The head of the for loop with attempt = a.
LoopHead(r, a, ar, outcomes) ==
    IF a <= ar.maxRetries
        THEN RunAttempt(r, a, ar, outcomes)
        ELSE /\ pc' = [pc EXCEPT ![r] = "done"]
             /\ result' = [result EXCEPT ![r] = ExhaustedResponse(ar, lastError[r])]
             /\ attempt' = [attempt EXCEPT ![r] = a]
             /\ UNCHANGED <<lastError, sleeps, invocations, children, plan>>

\* The arguments of a call, the defaults applied.
Arguments(ingredients, topK, minScore, maxRetries) ==
    [ingredients |-> ingredients,
     topK |-> OrDefault(topK, Num(DEFAULT_TOP_K)),
     minScore |-> OrDefault(minScore, Num(0)),
     maxRetries |-> OrDefault(maxRetries, Num(DEFAULT_MAX_RETRIES)).v10 \div 10]

\* A caller invokes getRecommendationsWithRetry with arguments of `inputs`;
\* the call runs up to its first suspension. `outcomes` is what the matching
\* processes of the request can do.
Call(r, inputs, outcomes) ==
    /\ pc[r] = "idle"
    /\ http[r].state = "none"
    /\ \E ar \in inputs :
          /\ args' = [args EXCEPT ![r] = ar]
          /\ LoopHead(r, 0, ar, outcomes)
    /\ UNCHANGED <<http, lexVars, clientVars>>

\* POST /api/recommendations with a body of `bodies`: the handler answers 400
\* itself, or calls getRecommendationsWithRetry(ingredients, topK, minScore)
\* and awaits it.
Post(r, bodies, outcomes) ==
    /\ pc[r] = "idle"
    /\ http[r].state = "none"
    /\ \E body \in bodies :
          LET error == ControllerCheck(body)
              ar == Arguments(body.ingredients,
                              OrElse(body.top_k, Num(DEFAULT_TOP_K)),
                              OrElse(body.min_score, Num(0)), Undefined)
          IN  IF error # NoThrow
                 THEN /\ http' = [http EXCEPT ![r] =
                             SendJson([@ EXCEPT !.request = body], 400,
                                      FailureResponse(RejectedQuery(body), <<error>>))]
                      /\ UNCHANGED serviceVars
                 ELSE /\ args' = [args EXCEPT ![r] = ar]
                      /\ LoopHead(r, 0, ar, outcomes)
                      /\ http' = [http EXCEPT ![r] =
                             ControllerAfterAwait(
                                 [@ EXCEPT !.state = "pending", !.request = body],
                                                  pc'[r], result'[r], ar.ingredients)]
    /\ UNCHANGED <<lexVars, clientVars>>

\* The timer of sleep fires: attempt++ and the loop goes on.
Wake(r) ==
    /\ pc[r] = "sleep"
    /\ LoopHead(r, attempt[r] + 1, args[r], Outcomes)
    /\ CallerContinues(r)
    /\ UNCHANGED <<args, lexVars, clientVars>>

\* ------------------------------------------------------ callPythonModel

\* A promise that every call of resolve/reject settles anew.
SettleChildAgain(ch, settle, by) ==
    [ch EXCEPT !.promise = IF settle.ok THEN "resolved" ELSE "rejected",
               !.settledBy = by]

\* resolve/reject on the promise of a child: only the first call settles it.
SettleChild(ch, settle, by) ==
    IF ch.promise = "pending"
        THEN [ch EXCEPT !.promise = IF settle.ok THEN "resolved" ELSE "rejected",
                        !.settledBy = by]
        ELSE ch

\* The continuations of a settlement: when it settles the pending promise,
\* getRecommendations resumes and ends, and the retry loop resumes after it.
Continue(r, i, settle) ==
    IF children[r][i].promise = "pending"
        THEN AfterAttempt(r, attempt[r], args[r],
                          GetRecommendationsAfterModel(args[r], settle))
        ELSE UNCHANGED <<pc, attempt, lastError, result, sleeps>>

\* StdoutOnData with stdoutData a field of the shared engine: every process
\* still running appends to the one buffer.
StdoutOnDataShared(chs, r, i, chunk) ==
    [q \in DOMAIN chs |->
        [j \in DOMAIN chs[q] |->
            IF chs[q][j].proc = "running"
                THEN [chs[q][j] EXCEPT
                         !.stdoutData = Append(@, chunk),
                         !.printed = IF q = r /\ j = i THEN TRUE ELSE @]
                ELSE chs[q][j]]]

\* stdoutData += data.toString(), on the buffer of the call that spawned the
\* process.
StdoutOnData(chs, r, i, chunk) ==
    [chs EXCEPT ![r][i].stdoutData = Append(@, chunk), ![r][i].printed = TRUE]

\* The timer's callback without the kill.
NoKillOnTimeout(proc) == proc

\* pythonProcess.kill() in the timer's callback.
KillOnTimeout(proc) == IF proc = "running" THEN "killed" ELSE proc

\* clearTimeout(timeout) in the second 'close' listener.
ClearTimeout(timer) == IF timer = "armed" THEN "cleared" ELSE timer

\* The process prints its output: the 'data' event of its stdout.
ChildData(r, i) ==
    LET ch == children[r][i]
        chunk == [valid |-> plan[r][i] # "garbage",
                  doc |-> PythonResponse(ch.stdin, r, i)]
    IN  /\ ch.proc = "running"
        /\ ~ch.printed
        /\ plan[r][i] \in {"ok", "garbage", "timeout"}
        /\ children' = StdoutOnData(children, r, i, chunk)
        /\ UNCHANGED <<pc, args, plan, attempt, lastError, result, invocations, sleeps>>
        /\ UNCHANGED <<http, lexVars, clientVars>>

\* The 'close' event: the process has ended and its streams are closed.
ChildClose(r, i) ==
    LET ch == children[r][i]
        code == IF ch.proc = "running" /\ plan[r][i] \in {"ok", "garbage"}
                   THEN 0 ELSE 1
        settle == CloseSettlement(code, ch.stdoutData)
    IN  /\ ch.proc \in {"running", "errored", "killed"}
        /\ ch.promise = "pending" =>
              /\ plan[r][i] \in {"ok", "garbage", "exit1"}
              /\ plan[r][i] \in {"ok", "garbage"} => ch.printed
        /\ children' = [children EXCEPT ![r][i] =
              [SettleChild(ch, settle, "close") EXCEPT
                  !.proc = "closed", !.timer = ClearTimeout(ch.timer)]]
        /\ Continue(r, i, settle)
        /\ CallerContinues(r)
        /\ UNCHANGED <<args, plan, invocations, lexVars, clientVars>>

\* The 'error' event: the process could not be started.
ChildError(r, i) ==
    LET ch == children[r][i]
        settle == Rejected("Failed to start Python process: spawn ENOENT")
    IN  /\ ch.proc = "running"
        /\ ch.promise = "pending"
        /\ plan[r][i] = "nostart"
        /\ children' = [children EXCEPT ![r][i] =
              [SettleChild(ch, settle, "error") EXCEPT !.proc = "errored"]]
        /\ Continue(r, i, settle)
        /\ CallerContinues(r)
        /\ UNCHANGED <<args, plan, invocations, lexVars, clientVars>>

\* The 120 s timer fires: the process is killed and the promise rejected.
Timeout(r, i) ==
    LET ch == children[r][i]
        settle == Rejected("Python process timeout after 120 seconds")
    IN  /\ ch.timer = "armed"
        /\ ch.promise = "pending" => plan[r][i] = "timeout"
        /\ children' = [children EXCEPT ![r][i] =
              [SettleChild(ch, settle, "timeout") EXCEPT
                  !.proc = KillOnTimeout(ch.proc), !.timer = "fired"]]
        /\ Continue(r, i, settle)
        /\ CallerContinues(r)
        /\ UNCHANGED <<args, plan, invocations, lexVars, clientVars>>

\* ------------------------------------ LightweightRecommendationEngine
\* server/src/services/lightweightRecommendationEngine.ts: the keyword
\* matching engine. A recipe of its corpus is [id, ingredients]; the fields it
\* only copies through (name, cuisine, ...) are left out.

\* String.prototype.includes
Includes(s, t) ==
    \E i \in 0..(Len(s) - Len(t)) : SubSeq(s, i + 1, i + Len(t)) = t

\* s.split(/\s+/) from position i on, `cur` the word being read: a run of
\* blanks separates two words, a blank at either end leaves an empty word.
RECURSIVE SplitFrom(_, _, _)
SplitFrom(s, i, cur) ==
    IF i > Len(s) THEN <<cur>>
    ELSE IF IsSpace(s[i])
        THEN IF i > 1 /\ IsSpace(s[i - 1])
                THEN SplitFrom(s, i + 1, cur)
                ELSE <<cur>> \o SplitFrom(s, i + 1, <<>>)
    ELSE SplitFrom(s, i + 1, Append(cur, s[i]))

Split(s) == SplitFrom(s, 1, <<>>)

\* isPartialMatch: a word of more than 3 characters of one string contains,
\* or is contained in, such a word of the other.
IsPartialMatch(str1, str2) ==
    LET words1 == Split(str1)
        words2 == Split(str2)
    IN  \E i \in DOMAIN words1 : \E j \in DOMAIN words2 :
            /\ Len(words1[i]) > 3
            /\ Len(words2[j]) > 3
            /\ Includes(words1[i], words2[j]) \/ Includes(words2[j], words1[i])

\* The branch of calculateMatchScore taken for a pair (query ingredient,
\* recipe ingredient): "match" counts in matchCount, "partial" in
\* partialMatchCount.
PairMatch(userIng, recipeIng) ==
    IF recipeIng = userIng \/ Includes(recipeIng, userIng) THEN "match"
    ELSE IF IsPartialMatch(userIng, recipeIng) \/ IsPartialMatch(recipeIng, userIng)
        THEN "partial"
    ELSE "none"

\* The number of pairs (i, j) of the two lists whose branch is `kind`.
PairCount(userIngredients, recipeIngredients, kind) ==
    Cardinality({p \in (DOMAIN userIngredients) \X (DOMAIN recipeIngredients) :
                    PairMatch(userIngredients[p[1]], recipeIngredients[p[2]]) = kind})

\* A match score. The number is min(w / (4 * sqrt(n)), 1): w is twice
\* totalScore (matchCount * 1.0 + partialMatchCount * 0.5, in halves) and n
\* the number of ingredients of the recipe; it is NaN (0 / 0) when n = 0.
Score(w, n) == [nan |-> n = 0, w |-> w, n |-> n]

\* Math.min(normalizedScore / 2, 1.0) returns 1.0
Capped(s) == ~s.nan /\ s.w * s.w >= 16 * s.n

\* a < b on two scores (false when one is NaN)
ScoreLess(a, b) ==
    /\ ~a.nan /\ ~b.nan
    /\ ~Capped(a)
    /\ Capped(b) \/ a.w * a.w * b.n < b.w * b.w * a.n

\* score >= minScore, minScore a number in tenths
ScoreAtLeast(s, minScore) ==
    /\ ~s.nan
    /\ minScore.type = "number" /\ ~minScore.nan
    /\ \/ minScore.v10 <= 0
       \/ /\ minScore.v10 <= 10
          /\ 100 * s.w * s.w >= 16 * minScore.v10 * minScore.v10 * s.n

\* calculateMatchScore
CalculateMatchScore(userIngredients, recipe) ==
    LET recipeIngredients ==
            [j \in DOMAIN recipe.ingredients |-> ToLowerCase(recipe.ingredients[j])]
        matchCount == PairCount(userIngredients, recipeIngredients, "match")
        partialMatchCount == PairCount(userIngredients, recipeIngredients, "partial")
    IN  Score(2 * matchCount + partialMatchCount, Len(recipeIngredients))

\* calculateIngredientCoverage with a recipe ingredient covered only when it
\* contains the query ingredient or matches it by partial words.
CoverageOneDirection(userIngredients, recipe) ==
    LET recipeIngredients ==
            [j \in DOMAIN recipe.ingredients |-> ToLowerCase(recipe.ingredients[j])]
        isCovered(recipeIng) ==
            \E i \in DOMAIN userIngredients :
                \/ Includes(recipeIng, userIngredients[i])
                \/ IsPartialMatch(userIngredients[i], recipeIng)
        coveredCount ==
            Cardinality({j \in DOMAIN recipeIngredients : isCovered(recipeIngredients[j])})
    IN  [covered |-> coveredCount, n |-> Len(recipeIngredients)]

\* calculateIngredientCoverage: the covered ingredients of the recipe over all
\* of them, as the fraction covered / n.
CalculateIngredientCoverage(userIngredients, recipe) ==
    LET recipeIngredients ==
            [j \in DOMAIN recipe.ingredients |-> ToLowerCase(recipe.ingredients[j])]
        isCovered(recipeIng) ==
            \E i \in DOMAIN userIngredients :
                \/ Includes(recipeIng, userIngredients[i])
                \/ Includes(userIngredients[i], recipeIng)
                \/ IsPartialMatch(userIngredients[i], recipeIng)
        coveredCount ==
            Cardinality({j \in DOMAIN recipeIngredients : isCovered(recipeIngredients[j])})
    IN  [covered |-> coveredCount, n |-> Len(recipeIngredients)]

\* ingredients.map(ing => ing.toLowerCase().trim())
LexNormalize(ingredients) ==
    [i \in DOMAIN ingredients |-> Trim(ToLowerCase(ingredients[i]))]

\* this.recipes.map(recipe => ({...recipe, match_score: ...}))
ScoreRecipes(corpus, normalizedIngredients) ==
    [k \in DOMAIN corpus |->
        [id |-> corpus[k].id, ingredients |-> corpus[k].ingredients,
         match_score |-> CalculateMatchScore(normalizedIngredients, corpus[k])]]

\* The filter left out: every scored recipe is kept.
FilterNothing(scored, minScore) == scored

\* .filter(recipe => recipe.match_score >= minScore)
FilterMinScore(scored, minScore) ==
    SelectSeq(scored, LAMBDA x : ScoreAtLeast(x.match_score, minScore))

\* One step of a stable sort with the comparator b.match_score - a.match_score:
\* x goes behind every element whose score is not lower than its own.
RECURSIVE InsertByScore(_, _)
InsertByScore(x, sorted) ==
    IF sorted = <<>> THEN <<x>>
    ELSE IF ScoreLess(Head(sorted).match_score, x.match_score)
        THEN <<x>> \o sorted
    ELSE <<Head(sorted)>> \o InsertByScore(x, Tail(sorted))

RECURSIVE SortPrefix(_, _)
SortPrefix(xs, k) ==
    IF k = 0 THEN <<>> ELSE InsertByScore(xs[k], SortPrefix(xs, k - 1))

\* .sort((a, b) => b.match_score - a.match_score); Array.prototype.sort is
\* stable.
SortByScore(xs) == SortPrefix(xs, Len(xs))

\* The integer a number converts to as an index: NaN to 0, a fraction
\* truncated towards zero.
ToIntegerOrInfinity(x) ==
    IF x.type # "number" \/ x.nan THEN 0
    ELSE IF x.v10 >= 0 THEN x.v10 \div 10
    ELSE 0 - ((0 - x.v10) \div 10)

\* .slice(0, topK): a negative end counts from the end of the array.
Slice0(xs, topK) ==
    LET k == ToIntegerOrInfinity(topK)
        end == IF k < 0
                  THEN (IF Len(xs) + k > 0 THEN Len(xs) + k ELSE 0)
                  ELSE (IF k < Len(xs) THEN k ELSE Len(xs))
    IN  SubSeq(xs, 1, end)

\* The second map of getRecommendations: ingredient_match_percentage is
\* coverage * 100, kept as the fraction num / den.
WithCoverage(ranked, normalizedIngredients) ==
    [k \in DOMAIN ranked |->
        LET coverage == CalculateIngredientCoverage(normalizedIngredients, ranked[k])
        IN  [id |-> ranked[k].id, ingredients |-> ranked[k].ingredients,
             match_score |-> ranked[k].match_score,
             ingredient_match_percentage |->
                 [num |-> 100 * coverage.covered, den |-> coverage.n]]]

\* The private validateInputs of the lightweight engine: the message of the
\* Error it throws, NoThrow when it returns. No method of the class calls it.
LexValidateInputs(ingredients, topK, minScore) ==
    IF Len(ingredients) = 0
        THEN "At least one ingredient is required"
    ELSE IF NumLess(topK, 10) \/ NumGreater(topK, 500)
        THEN "topK must be between 1 and 50"
    ELSE IF NumLess(minScore, 0) \/ NumGreater(minScore, 10)
        THEN "minScore must be between 0 and 1"
    ELSE NoThrow

\* getRecommendations of the lightweight engine on the corpus `corpus`: how
\* the call ends. Nothing in it throws for an array of strings.
LexGetRecommendations(corpus, ingredients, topK, minScore) ==
    LET normalizedIngredients == LexNormalize(ingredients)
        scoredRecipes == ScoreRecipes(corpus, normalizedIngredients)
        recommendations ==
            Slice0(SortByScore(FilterMinScore(scoredRecipes, minScore)), topK)
        recommendationsWithCoverage ==
            WithCoverage(recommendations, normalizedIngredients)
    IN  Returns([success |-> TRUE,
                 count |-> Len(recommendationsWithCoverage),
                 recommendations |-> recommendationsWithCoverage,
                 query_ingredients |-> ingredients])

\* The sort done in place on this.recipes: a call leaves the corpus in the
\* order of the scores of its query.
CorpusSortedInPlace(corpus, ingredients) ==
    LET sorted == SortByScore(ScoreRecipes(corpus, LexNormalize(ingredients))) IN
    [k \in DOMAIN sorted |->
        [id |-> sorted[k].id, ingredients |-> sorted[k].ingredients]]

\* What a call leaves in this.recipes: map and filter build new arrays and
\* sort works on the filtered one, the corpus stays as it was loaded.
CorpusAfterCall(corpus, ingredients) == corpus

\* A call of getRecommendations on the engine, at most `limit` of them.
LexCall(inputs, limit) ==
    /\ Len(lexCalls) < limit
    /\ \E a \in inputs :
          /\ lexCalls' = Append(lexCalls,
                 [ingredients |-> a.ingredients, topK |-> a.topK,
                  minScore |-> a.minScore,
                  out |-> LexGetRecommendations(recipes, a.ingredients,
                                                a.topK, a.minScore)])
          /\ recipes' = CorpusAfterCall(recipes, a.ingredients)
    /\ UNCHANGED <<serviceVars, http, clientVars>>

\* ------------------------------------------------------ client: api.ts
\* client/src/services/api.ts: getRecommendations and withRetry.

\* How a call of an async function ends.
FnReturns(value) == [threw |-> FALSE, value |-> value, error |-> NullError]
FnThrows(error) == [threw |-> TRUE, value |-> NoData, error |-> error]

\* What the network does with a request: it answers with a status and a
\* body (parsable is whether the body is JSON), the connection fails, or no
\* answer arrives within REQUEST_TIMEOUT and the request is aborted.
Answer(status, parsable, data) ==
    [kind |-> "answer", status |-> status, parsable |-> parsable, data |-> data]
ConnectionFails == [kind |-> "fails", status |-> 0, parsable |-> FALSE, data |-> NoData]
NoAnswer == [kind |-> "aborted", status |-> 0, parsable |-> FALSE, data |-> NoData]

\* fetchWithTimeout: the response, the ApiError of the timeout, or the
\* TypeError of fetch.
FetchWithTimeout(net) ==
    IF net.kind = "aborted"
        THEN FnThrows(ApiError("Request timeout - server took too long to respond", 0))
    ELSE IF net.kind = "fails"
        THEN FnThrows(OtherError("TypeError", "Failed to fetch"))
    ELSE FnReturns(net.data)

\* message || fallback
OrMessage(message, fallback) == IF message = "" THEN fallback ELSE message

\* response.ok
Ok(status) == status >= 200 /\ status <= 299

\* The ingredients getRecommendations sends: trimmed, the empty ones dropped.
ValidIngredients(ingredients) ==
    SelectSeq([i \in 1..Len(ingredients) |-> Trim(ingredients[i])],
              LAMBDA ing : Len(ing) > 0)

\* The catch block of getRecommendations.
RecommendationsCatch(error) ==
    IF error.kind = "TypeError" /\ error.message = "Failed to fetch"
        THEN FnThrows(ApiError(
                 "Unable to connect to the server. Please check if the backend is running.", 0))
    ELSE IF error.kind = "ApiError"
        THEN FnThrows(error)
    ELSE FnThrows(ApiError(IF error.kind = "value"
                              THEN "An unexpected error occurred"
                              ELSE error.message, 0))

\* getRecommendations(ingredients, topK, minScore) when the network does
\* `net` with its request.
GetRecommendations(ingredients, net) ==
    IF Len(ingredients) = 0
        THEN FnThrows(ApiError("At least one ingredient is required", 0))
    ELSE IF Len(ValidIngredients(ingredients)) = 0
        THEN FnThrows(ApiError("No valid ingredients provided", 0))
    ELSE IF FetchWithTimeout(net).threw
        THEN RecommendationsCatch(FetchWithTimeout(net).error)
    ELSE IF ~net.parsable
        THEN RecommendationsCatch(OtherError("SyntaxError", "Unexpected token < in JSON"))
    ELSE IF ~Ok(net.status)
        THEN FnThrows(ApiError(OrMessage(net.data.error, "Failed to get recommendations"),
                               net.status))
    ELSE IF ~net.data.success
        THEN FnThrows(ApiError(OrMessage(net.data.error,
                                         "Recommendation service returned an error"),
                               net.status))
    ELSE FnReturns(net.data)

\* withRetry(fn, maxRetries, baseDelay) at its call.
NewRetry(caller, maxRetries, baseDelay) ==
    [NoRetry EXCEPT !.caller = caller, !.maxRetries = maxRetries,
                    !.baseDelay = baseDelay]

\* The head of the for loop of withRetry with attempt = a: fn is called and
\* awaited, or the loop is left and lastError thrown.
RetryLoopHead(rt, a) ==
    IF a <= rt.maxRetries
        THEN [rt EXCEPT !.pc = "calling", !.attempt = a, !.calls = @ + 1]
        ELSE [rt EXCEPT !.pc = "threw", !.attempt = a, !.thrown = rt.lastError]

\* error instanceof ApiError && error.statusCode && error.statusCode < 500
NotRetried(error) ==
    /\ error.kind = "ApiError"
    /\ error.statusCode # 0
    /\ error.statusCode < 500

\* withRetry once the awaited fn() has ended with `out`.
RetryAfterFn(rt, out) ==
    LET caught == IF out.error.kind = "value"
                     THEN OtherError("Error", "Unknown error")
                     ELSE out.error
    IN  IF ~out.threw
            THEN [rt EXCEPT !.pc = "returned", !.value = out.value]
        ELSE IF NotRetried(out.error)
            THEN [rt EXCEPT !.pc = "threw", !.lastError = caught,
                            !.thrown = out.error]
        ELSE IF rt.attempt < rt.maxRetries
            THEN [rt EXCEPT !.pc = "waiting", !.lastError = caught,
                            !.waits = Append(@, rt.baseDelay * Pow2(rt.attempt))]
        ELSE RetryLoopHead([rt EXCEPT !.lastError = caught], rt.attempt + 1)

\* ------------------------------------------------------- client: App.tsx
\* client/src/App.tsx and the components it renders.

\* A value of the error state that `if (error)` takes for true.
Shown(error) == ~error.isNull /\ error.message # ""

\* handleIngredientsChange
HandleIngredientsChange(a, newIngredients) ==
    [a EXCEPT !.ingredients = newIngredients,
              !.error = IF Shown(a.error) THEN Null ELSE @]

\* handleSearch up to its await: the list is checked and the state reset.
HandleSearch(a) ==
    IF Len(a.ingredients) = 0
        THEN [a EXCEPT !.error = Message("Please add at least one ingredient")]
        ELSE [a EXCEPT !.isLoading = TRUE, !.error = Null, !.recipes = <<>>,
                       !.hasSearched = TRUE]

\* Whether handleSearch goes on to call withRetry.
SearchRequests(a) == Len(a.ingredients) # 0

\* handleSearch after its await with a catch block that sets no error.
HandleSearchSwallows(a, rt) ==
    IF rt.pc = "returned" /\ rt.value.success /\ rt.value.listed
                          /\ Len(rt.value.recommendations) > 0
        THEN [a EXCEPT !.recipes = rt.value.recommendations, !.isLoading = FALSE]
        ELSE [a EXCEPT !.isLoading = FALSE]

\* handleSearch after its await, withRetry having ended as `rt`: the try
\* block's remainder or the catch block, then the finally block.
HandleSearchAfterAwait(a, rt) ==
    IF rt.pc = "returned"
        THEN IF rt.value.success /\ rt.value.listed
                THEN [a EXCEPT
                         !.recipes = rt.value.recommendations,
                         !.error = IF Len(rt.value.recommendations) = 0
                                      THEN Message("No recipes found with these ingredients. Try adding more common ingredients.")
                                      ELSE @,
                         !.isLoading = FALSE]
                ELSE [a EXCEPT
                         !.error = Message(OrMessage(rt.value.error,
                                                     "Failed to get recommendations")),
                         !.isLoading = FALSE]
        ELSE [a EXCEPT
                 !.error = IF rt.thrown.kind \in {"value", "null"}
                              THEN Message("An unexpected error occurred. Please try again.")
                              ELSE Message(rt.thrown.message),
                 !.isLoading = FALSE]

\* What RecommendationList renders, by the priority of its main render.
Rendered(a) ==
    IF a.isLoading THEN "loading"
    ELSE IF Shown(a.error) THEN "error"
    ELSE IF Len(a.recipes) > 0 THEN "recipes"
    ELSE IF a.hasSearched THEN "empty"
    ELSE "initial"

\* The duplicate check of addIngredient made without toLowerCase.
IsDuplicateExact(ingredients, trimmedInput) ==
    \E i \in DOMAIN ingredients : ingredients[i] = trimmedInput

\* ingredients.some(ing => ing.toLowerCase() === trimmedInput.toLowerCase())
IsDuplicate(ingredients, trimmedInput) ==
    \E i \in DOMAIN ingredients :
        ToLowerCase(ingredients[i]) = ToLowerCase(trimmedInput)

\* The error with which addIngredient rejects the input, "" when it adds it.
AddRejection(inp) ==
    LET trimmedInput == Trim(inp.currentInput) IN
    IF Len(trimmedInput) = 0
        THEN "Please enter an ingredient"
    ELSE IF Len(trimmedInput) < 2
        THEN "Ingredient must be at least 2 characters"
    ELSE IF IsDuplicate(inp.ingredients, trimmedInput)
        THEN "This ingredient is already in the list"
    ELSE ""

\* addIngredient: the state of IngredientInput it leaves.
AddIngredient(inp) ==
    IF AddRejection(inp) # ""
        THEN [inp EXCEPT !.error = AddRejection(inp)]
        ELSE [inp EXCEPT !.ingredients = Append(@, Trim(inp.currentInput)),
                         !.currentInput = <<>>,
                         !.error = ""]

\* removeIngredient(index), the index counted from 0.
RemoveIngredient(inp, index) ==
    IF index < 0 \/ index >= Len(inp.ingredients)
        THEN inp
        ELSE [inp EXCEPT
                 !.ingredients = SubSeq(@, 1, index)
                                     \o SubSeq(@, index + 2, Len(@)),
                 !.error = ""]

\* clearAll
ClearAll(inp) == [inp EXCEPT !.ingredients = <<>>, !.currentInput = <<>>, !.error = ""]

\* handleInputChange
HandleInputChange(inp, value) ==
    [inp EXCEPT !.currentInput = value, !.error = IF @ # "" THEN "" ELSE @]

\* handleSearch of IngredientInput up to onSearch().
InputHandleSearch(inp) ==
    IF Len(inp.ingredients) = 0
        THEN [inp EXCEPT !.error = "Please add at least one ingredient before searching"]
        ELSE inp

\* The continuation of the caller of withRetry, in the turn in which the
\* invocation ends: App, when it made the call, goes on after its await.
AwaiterContinues ==
    app' = IF retry.caller = "app" /\ retry'.pc \in {"returned", "threw"}
              THEN HandleSearchAfterAwait(app, retry')
              ELSE app

\* A caller other than App invokes withRetry(fn, maxRetries, baseDelay).
WithRetryCall(maxRetriesInputs, baseDelayInputs) ==
    /\ retry.pc = "idle"
    /\ \E m \in maxRetriesInputs, d \in baseDelayInputs :
          retry' = RetryLoopHead(NewRetry("other", m, d), 0)
    /\ UNCHANGED <<input, app, serverVars>>

\* The promise of the awaited fn() settles with one of `outcomes`.
FnSettles(outcomes) ==
    /\ retry.pc = "calling"
    /\ \E out \in outcomes : retry' = RetryAfterFn(retry, out)
    /\ AwaiterContinues
    /\ UNCHANGED <<input, serverVars>>

\* The timer of the backoff fires: attempt++ and the loop goes on.
BackoffElapses ==
    /\ retry.pc = "waiting"
    /\ retry' = RetryLoopHead(retry, retry.attempt + 1)
    /\ AwaiterContinues
    /\ UNCHANGED <<input, serverVars>>

\* The user changes the text of the input field, enabled while not loading.
Type(values) ==
    /\ ~app.isLoading
    /\ \E v \in values :
          /\ v # input.currentInput
          /\ input' = HandleInputChange(input, v)
    /\ UNCHANGED <<app, retry, serverVars>>

\* addIngredient and, when it added, onIngredientsChange(newIngredients).
AddAndNotify ==
    /\ input' = AddIngredient(input)
    /\ app' = IF AddRejection(input) = ""
                 THEN HandleIngredientsChange(app, input'.ingredients)
                 ELSE app
    /\ UNCHANGED <<retry, serverVars>>

\* The user presses Enter in the input field: handleKeyPress.
KeyPressEnter ==
    /\ ~app.isLoading
    /\ AddAndNotify

\* The user clicks Add, enabled while not loading and the input not blank.
ClickAdd ==
    /\ ~app.isLoading
    /\ Len(Trim(input.currentInput)) # 0
    /\ AddAndNotify

\* The user clicks the remove button of the tag at `index`.
ClickRemove(index) ==
    /\ ~app.isLoading
    /\ index \in 0..(Len(input.ingredients) - 1)
    /\ input' = RemoveIngredient(input, index)
    /\ app' = HandleIngredientsChange(app, input'.ingredients)
    /\ UNCHANGED <<retry, serverVars>>

\* The user clicks Clear All, rendered while the list is not empty.
ClickClearAll ==
    /\ ~app.isLoading
    /\ Len(input.ingredients) > 0
    /\ input' = ClearAll(input)
    /\ app' = HandleIngredientsChange(app, <<>>)
    /\ UNCHANGED <<retry, serverVars>>

\* The user clicks Find Recipes, enabled while not loading and the list not
\* empty: handleSearch of IngredientInput calls onSearch, handleSearch of App,
\* which runs up to its await of withRetry(.., 2, 1000).
ClickSearch ==
    /\ ~app.isLoading
    /\ Len(input.ingredients) # 0
    /\ input' = InputHandleSearch(input)
    /\ app' = HandleSearch(app)
    /\ retry' = IF SearchRequests(app)
                   THEN RetryLoopHead(
                            NewRetry("app", APP_MAX_RETRIES, APP_BASE_DELAY), 0)
                   ELSE retry
    /\ UNCHANGED serverVars

\* ------------------------------------------------------------- the inputs

IngredientInputs ==
    {NullIngredients, NotAnArray, Arr(<<>>),
     Arr(<<Str(<<" ">>)>>),
     Arr(<<Str(<<"a">>), Str(<<>>)>>),
     Arr(<<NullItem>>),
     Arr(<<Str(<<"a">>)>>),
     Arr(<<Str(<<" ", "A">>), Str(<<"a">>), Str(<<"b", " ">>)>>),
     Arr(<<Str(<<" ", " ", "B", " ">>), Str(<<"b">>), Str(<<"a", " ", "b">>)>>)}

TopKInputs ==
    {Undefined, Num(0), Tenths(15), Num(MAX_TOP_K), Num(MAX_TOP_K + 1), NaN}

MinScoreInputs == {Undefined, Tenths(0 - 1), Num(1), Tenths(11), NaN, StringValue}

MaxRetriesInputs == {Undefined} \cup {Num(n) : n \in 0..MaxRetriesBound}

CallArguments ==
    {Arguments(i, k, m, x) :
        i \in IngredientInputs, k \in TopKInputs, m \in MinScoreInputs,
        x \in MaxRetriesInputs}

\* ------------------------------------------------------ the specifications

\* What the event loop can run for request r.
Step(r) ==
    \/ Wake(r)
    \/ \E i \in DOMAIN children[r] : ChildData(r, i)
    \/ \E i \in DOMAIN children[r] : ChildClose(r, i)
    \/ \E i \in DOMAIN children[r] : ChildError(r, i)
    \/ \E i \in DOMAIN children[r] : Timeout(r, i)

\* One request, any arguments.
Next ==
    \/ Call(1, CallArguments, Outcomes)
    \/ Step(1)

Spec == Init /\ [][Next]_vars

\* The event loop runs every handler that is due.
FairSpec == Spec /\ WF_vars(Step(1))

\* Concurrent requests on the one engine: arguments that pass validation and
\* arguments that fail it with different messages, and processes that end
\* well, cannot be started, or run into the timer.
ConcArguments ==
    {Arguments(Arr(<<Str(<<" ", "A">>), Str(<<"a">>)>>), Undefined, Undefined, Num(1)),
     Arguments(Arr(<<>>), Undefined, Undefined, Num(1)),
     Arguments(Arr(<<Str(<<"a">>)>>), Num(0), Undefined, Num(1))}

ConcOutcomes == {"ok", "nostart", "timeout"}

NextConc ==
    \E r \in Reqs :
        \/ Call(r, ConcArguments, ConcOutcomes)
        \/ Step(r)

SpecConc == Init /\ [][NextConc]_vars

\* The recipes a corpus is made of: two with the same ingredients, one whose
\* only ingredient has an upper case letter, one with four ingredients, one
\* with none.
RecipePool ==
    {[id |-> 1, ingredients |-> << <<"a", "b">>, <<"b">> >>],
     [id |-> 2, ingredients |-> << <<"A", "a", "a", "a">> >>],
     [id |-> 3, ingredients |->
         << <<"a", "a", "a", "a", "b">>, <<"b", " ", "a", "a", "a", "a", "b">>,
            <<"c">>, <<"c", "c">> >>],
     [id |-> 4, ingredients |-> << <<"a", "b">>, <<"b">> >>],
     [id |-> 5, ingredients |-> <<>>]}

\* recipes.json: up to MaxCorpus recipes of the pool, each once, in any order.
Corpora ==
    {c \in UNION {[1..n -> RecipePool] : n \in 0..MaxCorpus} :
        \A i, j \in DOMAIN c : i # j => c[i] # c[j]}

\* The ingredient strings of a query, as the caller writes them.
QueryStrings ==
    {<<"a">>, <<"A", " ">>, <<"a", "b">>, <<"a", "a", "a", "a", " ", "b">>}

Queries == UNION {[1..n -> QueryStrings] : n \in 0..MaxQueryLen}

LexTopKInputs == {Undefined, Num(0), Num(1), Tenths(0 - 15)}

LexMinScoreInputs == {Undefined, Tenths(5), Tenths(11)}

\* The arguments of a call of the lightweight engine, the defaults applied.
LexArguments(ingredients, topK, minScore) ==
    [ingredients |-> ingredients,
     topK |-> OrDefault(topK, Num(DEFAULT_TOP_K)),
     minScore |-> OrDefault(minScore, Num(0))]

LexCallArguments ==
    {LexArguments(q, k, m) : q \in Queries, k \in LexTopKInputs, m \in LexMinScoreInputs}

\* A lightweight engine constructed on a corpus; no request is served by the
\* retrying service.
InitLex ==
    /\ InitService
    /\ http = [r \in Reqs |-> NoHttp]
    /\ recipes \in Corpora
    /\ lexCalls = <<>>
    /\ InitClient

\* One call of the lightweight engine, any corpus, any arguments.
NextLex == LexCall(LexCallArguments, 1)

SpecLex == InitLex /\ [][NextLex]_vars

\* The bodies of the requests to POST /api/recommendations.
HttpIngredientInputs ==
    {NullIngredients, NotAnArray, Arr(<<>>),
     Arr(<<Str(<<" ">>)>>),
     Arr(<<Str(<<"a">>), Str(<<" ", "B">>)>>)}

HttpTopKInputs ==
    {Undefined, Num(0), Num(0 - 1), Tenths(15), Num(2), Num(MAX_TOP_K + 1),
     StringValue}

HttpMinScoreInputs == {Undefined, Num(1), Tenths(11), StringValue}

Bodies ==
    {Body(i, k, m) :
        i \in HttpIngredientInputs, k \in HttpTopKInputs, m \in HttpMinScoreInputs}

\* One request to the server, any body.
NextHttp ==
    \/ Post(1, Bodies, Outcomes)
    \/ Step(1)

SpecHttp == Init /\ [][NextHttp]_vars

\* The server under the event loop, which runs every handler that is ready.
FairSpecHttp == SpecHttp /\ WF_vars(Step(1))

\* Repeated calls: a lightweight engine on a corpus of MaxCorpus recipes that
\* is called up to MaxLexCalls times, and two requests to the retrying
\* service whose matching processes end well or with a non-zero exit code.
RepeatCorpora == {c \in Corpora : Len(c) = MaxCorpus}

RepeatLexArguments ==
    {LexArguments(<< <<"a">> >>, Undefined, Undefined),
     LexArguments(<< <<"a", "b">> >>, Undefined, Undefined)}

RepeatArguments ==
    {Arguments(Arr(<<Str(<<"a">>)>>), Undefined, Undefined, Num(0)),
     Arguments(Arr(<<Str(<<" ", "A">>), Str(<<"b">>)>>), Undefined, Undefined, Num(0))}

RepeatOutcomes == {"ok", "exit1"}

InitRepeat ==
    /\ InitService
    /\ http = [r \in Reqs |-> NoHttp]
    /\ recipes \in RepeatCorpora
    /\ lexCalls = <<>>
    /\ InitClient

\* With these arguments and outcomes no request sleeps, no process fails to
\* start and no timer fires with its promise pending: the handlers that can
\* run are those of 'data' and 'close'.
NextRepeat ==
    \/ LexCall(RepeatLexArguments, MaxLexCalls)
    \/ \E r \in {1, 2} :
          \/ Call(r, RepeatArguments, RepeatOutcomes)
          \/ \E i \in DOMAIN children[r] : ChildData(r, i)
          \/ \E i \in DOMAIN children[r] : ChildClose(r, i)

SpecRepeat == InitRepeat /\ [][NextRepeat]_vars

\* What the user types into the input field.
TypedInputs ==
    {<<>>, <<" ">>, <<"a">>, <<" ", "a", " ">>, <<"a", "b">>, <<"A", "B">>,
     <<" ", "a", "b", " ">>, <<"b", "a">>}

\* What the network does with a request of the client.
NetOutcomes ==
    {Answer(200, TRUE, Data(TRUE, TRUE, <<1, 2>>, "")),
     Answer(200, TRUE, Data(TRUE, TRUE, <<>>, "")),
     Answer(200, TRUE, Data(TRUE, FALSE, <<>>, "")),
     Answer(200, TRUE, Data(FALSE, TRUE, <<>>, "Model failure")),
     Answer(400, TRUE, Data(FALSE, TRUE, <<>>, "top_k must be a positive integer")),
     Answer(500, TRUE, Data(FALSE, TRUE, <<>>, "All 3 attempts failed")),
     Answer(500, TRUE, Data(FALSE, FALSE, <<>>, "")),
     Answer(502, FALSE, NoData),
     ConnectionFails, NoAnswer}

\* How the call getRecommendations(ingredients, 10, 0.0) of App's search
\* can end.
AppFnOutcomes == {GetRecommendations(app.ingredients, net) : net \in NetOutcomes}

\* The client: the user's events, the network, the timers.
NextClient ==
    \/ Type(TypedInputs)
    \/ KeyPressEnter
    \/ ClickAdd
    \/ \E index \in 0..1 : ClickRemove(index)
    \/ ClickClearAll
    \/ ClickSearch
    \/ FnSettles(AppFnOutcomes)
    \/ BackoffElapses

SpecClient == Init /\ [][NextClient]_vars

\* The client in a browser, whose every request ends (fetchWithTimeout
\* aborts it after REQUEST_TIMEOUT) and whose every timer fires.
FairSpecClient ==
    SpecClient /\ WF_vars(FnSettles(AppFnOutcomes)) /\ WF_vars(BackoffElapses)

\* How a call of the function given to withRetry can end.
FnOutcomes ==
    {FnReturns(Data(TRUE, TRUE, <<1>>, "")),
     FnReturns(Data(TRUE, TRUE, <<>>, "")),
     FnThrows(OtherError("Error", "failed")),
     FnThrows(NotAnError)}
        \cup {FnThrows(ApiError("failed", c)) : c \in {0, 200, 404, 500}}

RetryMaxRetriesInputs == 0..MaxRetriesBound
RetryBaseDelayInputs == {1000, 300}

\* withRetry called with any function, any maxRetries >= 0, any baseDelay.
NextRetry ==
    \/ WithRetryCall(RetryMaxRetriesInputs, RetryBaseDelayInputs)
    \/ FnSettles(FnOutcomes)
    \/ BackoffElapses

SpecRetry == Init /\ [][NextRetry]_vars

\* ================================================================= claims

\* validateInputs throws for the arguments of request r.
Invalid(r) ==
    ValidateInputs(args[r].ingredients, args[r].topK, args[r].minScore) # NoThrow

Started(r) == pc[r] # "idle"

\* Some matching process of request r failed: its promise was rejected.
ProcessFailed(r) ==
    \E i \in DOMAIN children[r] : children[r][i].promise = "rejected"

\* The text of an error has `part` among its parts.
Mentions(error, part) == \E k \in DOMAIN error : error[k] = part

FailureOutcomes == Outcomes \ {"ok"}

\* The messages of the transient failures.
FailureMessage(outcome) ==
    CASE outcome = "garbage" -> "Failed to parse recommendation results"
      [] outcome = "exit1" -> "Python process exited with code 1: "
      [] outcome = "nostart" -> "Failed to start Python process: spawn ENOENT"
      [] outcome = "timeout" -> "Python process timeout after 120 seconds"
      [] OTHER -> ""

\* C1 (as claimed; the code violates it): with the default maxRetries = 2, a
\* request whose matching process failed transiently surfaces a failure to its
\* caller only after all maxRetries + 1 attempts have been made.
C1_TransientFailureRetried ==
    \A r \in Reqs :
        (/\ pc[r] = "done"
         /\ args[r].maxRetries = DEFAULT_MAX_RETRIES
         /\ ProcessFailed(r)
         /\ ~result[r].success)
        => invocations[r] = args[r].maxRetries + 1

\* C2 (as claimed; the code violates it): a request whose arguments fail
\* validation makes exactly one attempt, starts no backoff wait, and has its
\* error surfaced at once.
C2_ValidationNeverRetried ==
    \A r \in Reqs :
        (Started(r) /\ Invalid(r))
        => /\ invocations[r] = 1
           /\ sleeps[r] = <<>>
           /\ pc[r] = "done"

\* A failure path: the arguments failed validation or a matching process
\* failed.
FailurePath(r) == Invalid(r) \/ ProcessFailed(r)

FailureShape(response) ==
    /\ response.success = FALSE
    /\ response.count = 0
    /\ response.recommendations = <<>>
    /\ response.error # NoError

\* C3: getRecommendationsWithRetry never throws to its caller; every call
\* eventually returns; and on every failure path the response returned has
\* success = false, count = 0, no recommendations and the error set.
C3_NeverThrowsAlwaysReturns ==
    /\ [](\A r \in Reqs :
            /\ pc[r] # "thrown"
            /\ (pc[r] = "done" /\ FailurePath(r)) => FailureShape(result[r]))
    /\ \A r \in Reqs : Started(r) ~> (pc[r] = "done")

C3_Witness ==
    \E r \in Reqs :
        /\ pc[r] = "done"
        /\ ProcessFailed(r)
        /\ FailureShape(result[r])

\* C4 (as claimed; the code violates it): a call of getRecommendations whose
\* arguments violate a validation rule returns a failure response (it does not
\* raise): nothing reaches the catch block of the retry loop, and the response
\* echoes the query and carries the message of the violated rule.
C4_ValidationFailureReturned ==
    \A r \in Reqs :
        (Started(r) /\ Invalid(r))
        => /\ lastError[r] = ""
           /\ pc[r] = "done"
           /\ result[r] = FailureResponse(args[r].ingredients,
                  <<ValidateInputs(args[r].ingredients, args[r].topK,
                                   args[r].minScore)>>)

\* C5 (as claimed; the code violates it): when the matching process fails on
\* attempts 1 and 2 and succeeds on attempt 3, the call returns the third
\* attempt's successful response after backoff waits of 1 s and 2 s; and a
\* success ends the loop with no further attempt and no further wait.
C5_SucceedsOnThirdAttempt ==
    \A r \in Reqs :
        (pc[r] = "done" /\ children[r] # <<>>)
        => /\ (/\ args[r].maxRetries = DEFAULT_MAX_RETRIES
               /\ plan[r][1] \in FailureOutcomes
               /\ plan[r][2] \in FailureOutcomes
               /\ plan[r][3] = "ok")
              => /\ result[r] = PythonResponse(children[r][1].stdin, r, 3)
                 /\ sleeps[r] = <<BACKOFF_BASE_MS, 2 * BACKOFF_BASE_MS>>
                 /\ invocations[r] = 3
           /\ result[r].success
              => /\ invocations[r] = Len(children[r])
                 /\ Len(sleeps[r]) = Len(children[r]) - 1

\* C6 (as claimed; the code violates it): when the matching process fails on
\* every attempt up to the ceiling, the response has success = false and an
\* error that mentions the number of attempts made, maxRetries + 1, and the
\* last underlying failure.
C6_ExhaustionReported ==
    \A r \in Reqs :
        (/\ pc[r] = "done"
         /\ children[r] # <<>>
         /\ \A i \in DOMAIN plan[r] : plan[r][i] \in FailureOutcomes)
        => /\ ~result[r].success
           /\ Mentions(result[r].error, ToString(args[r].maxRetries + 1))
           /\ Mentions(result[r].error,
                       FailureMessage(plan[r][args[r].maxRetries + 1]))

\* C7: for arguments that fail validation no child process is ever spawned,
\* in any attempt; and for ingredients = [] the response has success = false,
\* no recommendations and an error naming "At least one ingredient".
C7_NoProcessForInvalidArguments ==
    \A r \in Reqs :
        /\ Invalid(r) => children[r] = <<>>
        /\ (pc[r] = "done" /\ args[r].ingredients = Arr(<<>>))
           => /\ ~result[r].success
              /\ result[r].recommendations = <<>>
              /\ Mentions(result[r].error, "At least one ingredient must be provided")

C7_Witness ==
    \E r \in Reqs :
        /\ pc[r] = "done"
        /\ args[r].ingredients = Arr(<<>>)
        /\ invocations[r] > 1
        /\ children[r] = <<>>

\* The six rules of validation as the documentation states them.
RuleHolds(n, ar) ==
    CASE n = 1 -> ar.ingredients.kind = "array"
      [] n = 2 -> Len(ar.ingredients.items) > 0
      [] n = 3 -> \A i \in DOMAIN ar.ingredients.items :
                      /\ ar.ingredients.items[i].type = "string"
                      /\ Trim(ar.ingredients.items[i].s) # <<>>
      [] n = 4 -> /\ ar.topK.type = "number" /\ ~ar.topK.nan
                  /\ ar.topK.v10 % 10 = 0 /\ ar.topK.v10 > 0
      [] n = 5 -> /\ ar.topK.type = "number" /\ ~ar.topK.nan
                  /\ ar.topK.v10 <= 10 * MAX_TOP_K
      [] n = 6 -> /\ ar.minScore.type = "number" /\ ~ar.minScore.nan
                  /\ ar.minScore.v10 >= 0 /\ ar.minScore.v10 <= 10
      [] OTHER -> TRUE

RuleMessage(n) ==
    CASE n = 1 -> "Ingredients must be a non-empty array"
      [] n = 2 -> "At least one ingredient must be provided"
      [] n = 3 -> "All ingredients must be non-empty strings"
      [] n = 4 -> "topK must be a positive integer"
      [] n = 5 -> "topK cannot exceed 100"
      [] n = 6 -> "minScore must be a number between 0 and 1"
      [] OTHER -> NoThrow

\* The first rule the arguments violate, 7 when they satisfy all six.
FirstViolated(ar) ==
    LET bad == {n \in 1..6 : ~RuleHolds(n, ar)} IN
    IF bad = {} THEN 7 ELSE CHOOSE n \in bad : \A m \in bad : n <= m

\* What validateInputs did on the first attempt of request r: the message it
\* threw, NoThrow when the attempt went on to spawn the process.
ValidationSeen(r) == IF children[r] # <<>> THEN NoThrow ELSE lastError[r]

\* C8 (as claimed; the code violates it): validateInputs reports exactly the
\* first violated of the six rules, in their order, and accepts the arguments
\* that satisfy all of them.
C8_FirstViolatedRuleReported ==
    \A r \in Reqs :
        Started(r) => ValidationSeen(r) = RuleMessage(FirstViolated(args[r]))

\* C9: when the timer of an attempt fires, its process is killed, not left
\* running, and the attempt is reported as failed; no process of an earlier
\* attempt is still running when a later one exists, so a request never has
\* more than one live child process.
C9_TimedOutProcessKilled ==
    \A r \in Reqs :
        /\ \A i \in DOMAIN children[r] :
              /\ children[r][i].timer = "fired" => children[r][i].proc # "running"
              /\ children[r][i].settledBy = "timeout"
                 => /\ children[r][i].promise = "rejected"
                    /\ children[r][i].proc \in {"killed", "closed"}
                    /\ pc[r] = "done" => ~result[r].success
              /\ i < Len(children[r]) => children[r][i].proc # "running"
        /\ Cardinality({i \in DOMAIN children[r] : children[r][i].proc = "running"}) <= 1

C9_Witness ==
    \E r \in Reqs : \E i \in DOMAIN children[r] :
        /\ children[r][i].settledBy = "timeout"
        /\ children[r][i].proc = "killed"
        /\ pc[r] = "done"

\* The settlement of the promise of a process that does `outcome` and nothing
\* else happens to it.
SoloSettlement(ar, outcome, r, i) ==
    LET doc == PythonResponse(NormalizeIngredients(ar.ingredients.items), r, i) IN
    CASE outcome = "ok" -> CloseSettlement(0, <<[valid |-> TRUE, doc |-> doc]>>)
      [] outcome = "garbage" -> CloseSettlement(0, <<[valid |-> FALSE, doc |-> doc]>>)
      [] outcome = "exit1" -> CloseSettlement(1, <<>>)
      [] OTHER -> Rejected(FailureMessage(outcome))

\* getRecommendationsWithRetry run alone, from attempt `a` on, with lastError
\* `last` and `i - 1` processes spawned before.
RECURSIVE SoloLoop(_, _, _, _, _, _)
SoloLoop(ar, pl, r, a, last, i) ==
    IF a > ar.maxRetries THEN ExhaustedResponse(ar, last)
    ELSE LET err == ValidateInputs(ar.ingredients, ar.topK, ar.minScore)
             out == IF err # NoThrow
                       THEN Throws(err)
                       ELSE GetRecommendationsAfterModel(ar,
                                SoloSettlement(ar, pl[i], r, i))
         IN  IF ~out.threw THEN out.value
             ELSE SoloLoop(ar, pl, r, a + 1, out.message,
                           IF err # NoThrow THEN i ELSE i + 1)

\* The response request r gets when it runs alone.
SoloResult(r) == SoloLoop(args[r], plan[r], r, 0, "", 1)

\* C10: concurrent requests are independent: in every interleaving each
\* request's response is the one it gets when run alone, and a request that
\* waits in its backoff or for its process keeps no other request from taking
\* its next step.
C10_RequestsIndependent ==
    \A r \in Reqs :
        /\ pc[r] = "done" => result[r] = SoloResult(r)
        /\ pc[r] \in {"sleep", "await"} => ENABLED Step(r)

C10_Witness ==
    \E r \in Reqs : \E q \in Reqs \ {r} :
        /\ pc[q] = "sleep"
        /\ pc[r] = "done"
        /\ result[r].success
        /\ result[r] = SoloResult(r)

\* ------------------------------------------- claims: the lightweight engine

\* The list a call of the lightweight engine returned.
Returned(call) == call.out.value.recommendations

\* The score of recipe k of the corpus for the query of a call.
CorpusScore(call, k) ==
    CalculateMatchScore(LexNormalize(call.ingredients), recipes[k])

SameScore(a, b) == ~ScoreLess(a, b) /\ ~ScoreLess(b, a)

\* C11 (as claimed; the code violates it): the list a call returns is sorted
\* by match_score descending, recipes of equal score are in ascending order of
\* their id, and the list has no more than topK entries.
C11_SortedByScoreThenId ==
    \A c \in DOMAIN lexCalls :
        LET recs == Returned(lexCalls[c]) IN
        /\ \A i, j \in DOMAIN recs :
              i < j =>
                 /\ ~ScoreLess(recs[i].match_score, recs[j].match_score)
                 /\ SameScore(recs[i].match_score, recs[j].match_score)
                    => recs[i].id < recs[j].id
        /\ 10 * Len(recs) <= lexCalls[c].topK.v10

\* C12: every recipe a call returns has match_score >= minScore, and a recipe
\* of the corpus with match_score >= minScore that is not returned was cut off
\* by the truncation: the list is full up to topK and the recipe scores no
\* higher than the last one returned.
C12_MinScoreFilter ==
    \A c \in DOMAIN lexCalls :
        LET call == lexCalls[c]
            recs == Returned(call)
        IN  /\ \A i \in DOMAIN recs : ScoreAtLeast(recs[i].match_score, call.minScore)
            /\ \A k \in DOMAIN recipes :
                  (/\ ScoreAtLeast(CorpusScore(call, k), call.minScore)
                   /\ \A i \in DOMAIN recs : recs[i].id # recipes[k].id)
                  => /\ 10 * (Len(recs) + 1) > call.topK.v10
                     /\ recs # <<>> =>
                           ~ScoreLess(recs[Len(recs)].match_score, CorpusScore(call, k))

\* A call that returned a recipe, filtered one out for its score and cut one
\* off that reached minScore.
C12_Witness ==
    \E c \in DOMAIN lexCalls :
        LET call == lexCalls[c]
            recs == Returned(call)
        IN  /\ recs # <<>>
            /\ \E k \in DOMAIN recipes :
                  /\ ~recipes[k].ingredients = <<>>
                  /\ ~ScoreAtLeast(CorpusScore(call, k), call.minScore)
            /\ \E k \in DOMAIN recipes :
                  /\ ScoreAtLeast(CorpusScore(call, k), call.minScore)
                  /\ \A i \in DOMAIN recs : recs[i].id # recipes[k].id

\* C13 (as claimed; the code violates it): a call with a topK that is not a
\* positive integer, or with a minScore outside [0, 1], is rejected: it
\* throws or returns a response with success = false, and no ranking.
C13_InvalidArgumentsRejected ==
    \A c \in DOMAIN lexCalls :
        LET call == lexCalls[c] IN
        (\/ call.topK.v10 <= 0
         \/ call.topK.v10 % 10 # 0
         \/ call.minScore.v10 < 0
         \/ call.minScore.v10 > 10)
        => \/ call.out.threw
           \/ ~call.out.value.success

\* The weight, in halves, the documentation gives a pair: 1.0 for equality or
\* containment in either direction, 0.5 for a partial-word match only.
ClaimedPairWeight(userIng, recipeIng) ==
    IF \/ recipeIng = userIng
       \/ Includes(recipeIng, userIng)
       \/ Includes(userIng, recipeIng)
        THEN 2
    ELSE IF IsPartialMatch(userIng, recipeIng) \/ IsPartialMatch(recipeIng, userIng)
        THEN 1
    ELSE 0

RECURSIVE SumOver(_, _, _)
SumOver(pairs, users, ings) ==
    IF pairs = {} THEN 0
    ELSE LET p == CHOOSE p \in pairs : TRUE IN
         ClaimedPairWeight(users[p[1]], ings[p[2]])
             + SumOver(pairs \ {p}, users, ings)

\* The score the documentation gives a recipe for a query.
ClaimedScore(query, ingredients) ==
    LET users == [i \in DOMAIN query |-> ToLowerCase(Trim(query[i]))]
        ings == [j \in DOMAIN ingredients |-> ToLowerCase(ingredients[j])]
    IN  Score(SumOver((DOMAIN users) \X (DOMAIN ings), users, ings), Len(ings))

\* C14 (as claimed; the code violates it): the match_score of a returned
\* recipe is the accumulated weight, 1.0 for every pair that matches by
\* equality or by containment in either direction, 0.5 for every pair that
\* matches by partial words only, divided by sqrt(ingredient count) and by 2,
\* capped at 1.0.
C14_ScoreWeights ==
    \A c \in DOMAIN lexCalls :
        LET recs == Returned(lexCalls[c]) IN
        \A i \in DOMAIN recs :
            SameScore(recs[i].match_score,
                      ClaimedScore(lexCalls[c].ingredients, recs[i].ingredients))

\* Two returned lists with the same recipes in the same order, with the same
\* scores and the same percentages.
SameRanking(recs1, recs2) ==
    /\ Len(recs1) = Len(recs2)
    /\ \A i \in DOMAIN recs1 :
          /\ recs1[i].id = recs2[i].id
          /\ SameScore(recs1[i].match_score, recs2[i].match_score)
          /\ recs1[i].ingredient_match_percentage = recs2[i].ingredient_match_percentage

\* The set of the trimmed, lower-cased ingredients of a query.
QuerySet(query) == {ToLowerCase(Trim(query[i])) : i \in DOMAIN query}

\* C15 (as claimed; the code violates it): a query with the same set of
\* trimmed, lower-cased ingredients as the query of a call (its ingredients
\* reordered or repeated) gets the same recipes in the same order with the
\* same scores and percentages.
C15_DependsOnIngredientSet ==
    \A c \in DOMAIN lexCalls :
        LET call == lexCalls[c] IN
        \A q \in Queries :
            QuerySet(q) = QuerySet(call.ingredients)
            => SameRanking(Returned(call),
                   LexGetRecommendations(recipes, q, call.topK,
                                         call.minScore).value.recommendations)

\* The ingredients of a recipe that some ingredient of the query covers.
Covered(query, ingredients) ==
    {j \in DOMAIN ingredients :
        \E i \in DOMAIN query :
            LET userIng == ToLowerCase(Trim(query[i]))
                recipeIng == ToLowerCase(ingredients[j])
            IN  \/ Includes(recipeIng, userIng)
                \/ Includes(userIng, recipeIng)
                \/ IsPartialMatch(userIng, recipeIng)
                \/ IsPartialMatch(recipeIng, userIng)}

\* C16: for a returned recipe with at least one ingredient,
\* ingredient_match_percentage is 100 * covered / count, where covered counts
\* the ingredients of the recipe some query ingredient covers by containment
\* in either direction or by a partial-word match; it lies in [0, 100], and is
\* 50 for a recipe with 4 ingredients of which 2 are covered.
C16_CoveragePercentage ==
    \A c \in DOMAIN lexCalls :
        LET recs == Returned(lexCalls[c]) IN
        \A i \in DOMAIN recs :
            LET pct == recs[i].ingredient_match_percentage
                n == Len(recs[i].ingredients)
                covered == Cardinality(Covered(lexCalls[c].ingredients,
                                               recs[i].ingredients))
            IN  n >= 1 =>
                   /\ pct.den > 0
                   /\ pct.num * n = 100 * covered * pct.den
                   /\ 0 <= pct.num /\ pct.num <= 100 * pct.den
                   /\ (n = 4 /\ covered = 2) => pct.num = 50 * pct.den

\* A returned recipe with 4 ingredients of which the query covers 2.
C16_Witness ==
    \E c \in DOMAIN lexCalls :
        LET recs == Returned(lexCalls[c]) IN
        \E i \in DOMAIN recs :
            /\ Len(recs[i].ingredients) = 4
            /\ Cardinality(Covered(lexCalls[c].ingredients, recs[i].ingredients)) = 2
            /\ recs[i].ingredient_match_percentage.num
                   = 50 * recs[i].ingredient_match_percentage.den

\* ------------------------------------------------------ claims: repetition

\* Two responses of the service that agree in all but the identity of the
\* process that printed them.
SameResponse(a, b) ==
    /\ a.success = b.success
    /\ a.count = b.count
    /\ Len(a.recommendations) = Len(b.recommendations)
    /\ a.query = b.query
    /\ a.error = b.error

AsItems(strings) == [k \in DOMAIN strings |-> Str(strings[k])]

\* C18: normalizeIngredients is idempotent: normalizing the list it returned,
\* the query written to a matching process, returns that list again.
C18_NormalizeIdempotent ==
    \A r \in Reqs : \A i \in DOMAIN children[r] :
        LET once == children[r][i].stdin IN
        /\ once = NormalizeIngredients(args[r].ingredients.items)
        /\ NormalizeIngredients(AsItems(once)) = once

\* A query that normalization made differ from the ingredients as given, and
\* that normalizing again leaves as it is.
C18_Witness ==
    \E r \in Reqs : \E i \in DOMAIN children[r] :
        /\ AsItems(children[r][i].stdin) # args[r].ingredients.items
        /\ \E k \in DOMAIN args[r].ingredients.items :
              Len(TrimStart(args[r].ingredients.items[k].s)) + 2
                  = Len(args[r].ingredients.items[k].s)
        /\ NormalizeIngredients(AsItems(children[r][i].stdin)) = children[r][i].stdin

\* C19: the query written to a matching process, the normalized form of an
\* ingredient list that validateInputs accepted, is non-empty; each of its
\* elements is non-empty, begins and ends with no blank and has no upper case
\* letter; and no two of its elements are equal.
C19_QueryWellFormed ==
    \A r \in Reqs : \A i \in DOMAIN children[r] :
        LET query == children[r][i].stdin IN
        /\ query # <<>>
        /\ \A k \in DOMAIN query :
              /\ query[k] # <<>>
              /\ query[k][1] # " "
              /\ query[k][Len(query[k])] # " "
              /\ \A n \in DOMAIN query[k] : query[k][n] \notin {"A", "B"}
        /\ \A k, m \in DOMAIN query : k # m => query[k] # query[m]

\* A query of two elements made from three ingredients, two of which differ
\* in case and blanks only.
C19_Witness ==
    \E r \in Reqs : \E i \in DOMAIN children[r] :
        /\ Len(args[r].ingredients.items) = 3
        /\ Len(children[r][i].stdin) = 2
        /\ \E k \in DOMAIN args[r].ingredients.items :
              \E n \in DOMAIN args[r].ingredients.items[k].s :
                  args[r].ingredients.items[k].s[n] \in {"A", "B"}

\* ------------------------------------------------- claims: the controller

\* A request that fails request validation as the documentation lists it: an
\* empty body; ingredients missing, no array or empty; a blank ingredient; a
\* top_k that is no positive integer or exceeds 100; a min_score outside
\* [0, 1].
FailsRequestValidation(body) ==
    \/ body.keys = 0
    \/ body.ingredients.kind # "array"
    \/ body.ingredients.items = <<>>
    \/ \E k \in DOMAIN body.ingredients.items :
          \/ body.ingredients.items[k].type # "string"
          \/ Trim(body.ingredients.items[k].s) = <<>>
    \/ /\ body.top_k.type # "undefined"
       /\ ~(/\ body.top_k.type = "number" /\ ~body.top_k.nan
            /\ body.top_k.v10 > 0
            /\ body.top_k.v10 % 10 = 0
            /\ body.top_k.v10 <= 10 * MAX_TOP_K)
    \/ /\ body.min_score.type # "undefined"
       /\ ~(/\ body.min_score.type = "number" /\ ~body.min_score.nan
            /\ body.min_score.v10 >= 0
            /\ body.min_score.v10 <= 10)

\* C20 (as claimed; the code violates it): a request that fails request
\* validation is answered with status 400 and success = false, and status 500
\* is sent only when the request passed validation and a matching process
\* failed.
C20_ValidationAnswered400 ==
    \A r \in Reqs :
        http[r].state = "sent" =>
            /\ FailsRequestValidation(http[r].request)
               => /\ http[r].status = 400
                  /\ ~http[r].body.success
            /\ http[r].status = 500
               => /\ ~FailsRequestValidation(http[r].request)
                  /\ ProcessFailed(r)

\* A supplied top_k that is no integer > 0, a supplied min_score outside
\* [0, 1].
BadTopK(body) ==
    /\ body.top_k.type # "undefined"
    /\ ~(/\ body.top_k.type = "number" /\ ~body.top_k.nan
         /\ body.top_k.v10 > 0
         /\ body.top_k.v10 % 10 = 0)

BadMinScore(body) ==
    /\ body.min_score.type # "undefined"
    /\ ~(/\ body.min_score.type = "number" /\ ~body.min_score.nan
         /\ body.min_score.v10 >= 0
         /\ body.min_score.v10 <= 10)

\* C21 (as claimed; the code violates it): a request with a non-empty array
\* of ingredients whose top_k is supplied and is no integer > 0 is answered
\* 400 "top_k must be a positive integer", one whose min_score is supplied and
\* outside [0, 1] is answered 400 likewise, and the service is called with the
\* defaults 5 and 0.0 only for a field that is not supplied.
C21_SuppliedTopKChecked ==
    \A r \in Reqs :
        LET body == http[r].request IN
        (/\ http[r].state # "none"
         /\ body.ingredients.kind = "array"
         /\ body.ingredients.items # <<>>)
        => /\ BadTopK(body)
              => /\ http[r].status = 400
                 /\ http[r].body.error = <<"top_k must be a positive integer">>
           /\ (~BadTopK(body) /\ BadMinScore(body))
              => /\ http[r].status = 400
                 /\ http[r].body.error = <<"min_score must be a number between 0 and 1">>
           /\ pc[r] # "idle"
              => /\ args[r].topK = IF body.top_k.type = "undefined"
                                      THEN Num(5) ELSE body.top_k
                 /\ args[r].minScore = IF body.min_score.type = "undefined"
                                          THEN Num(0) ELSE body.min_score

\* C22: for a request that passed the controller's validation, so that the
\* service was called, the controller answers 200 with the result exactly
\* when the result has success = true and 500 in every other case, and it
\* answers in the turn in which the call ends.
C22_StatusFollowsSuccess ==
    \A r \in Reqs :
        (http[r].state # "none" /\ pc[r] # "idle")
        => /\ pc[r] = "done"
              => /\ http[r].state = "sent"
                 /\ http[r].body = result[r]
                 /\ http[r].status = 200 <=> result[r].success
                 /\ http[r].status = 500 <=> ~result[r].success
           /\ pc[r] = "thrown"
              => /\ http[r].state = "sent"
                 /\ http[r].status = 500
                 /\ ~http[r].body.success
           /\ pc[r] \notin {"done", "thrown"} => http[r].state = "pending"

\* A request answered 500 with the failed result of the service, after its
\* matching process failed.
C22_Witness ==
    \E r \in Reqs :
        /\ http[r].state = "sent"
        /\ http[r].status = 500
        /\ http[r].body = result[r]
        /\ ProcessFailed(r)

\* C23: after a successful attempt (the process closed with code 0 and its
\* output parsed) the result of getRecommendations and of
\* getRecommendationsWithRetry, and the body the controller sends, is the
\* parsed output of the process, nothing added, removed, reordered or altered.
C23_OutputPassedThrough ==
    \A r \in Reqs : \A i \in DOMAIN children[r] :
        children[r][i].promise = "resolved"
        => LET printed == children[r][i].stdoutData[1].doc IN
           /\ pc[r] = "done"
           /\ result[r] = printed
           /\ http[r].state = "sent"
           /\ http[r].status = 200
           /\ http[r].body = printed

\* A request answered with the recipes its matching process printed.
C23_Witness ==
    \E r \in Reqs : \E i \in DOMAIN children[r] :
        /\ children[r][i].promise = "resolved"
        /\ http[r].state = "sent"
        /\ http[r].body.recommendations # <<>>
        /\ http[r].body = children[r][i].stdoutData[1].doc

\* ------------------------------------------------- claims: mechanics

\* The bookkeeping of the retry loop of request r in a state.
RetryBookkeeping(r) ==
    /\ invocations[r] <= args[r].maxRetries + 1
    /\ Len(sleeps[r]) <= args[r].maxRetries
    /\ \A k \in DOMAIN sleeps[r] : sleeps[r][k] = 1000 * 2 ^ (k - 1)
    /\ pc[r] = "await" => Len(sleeps[r]) = invocations[r] - 1
    /\ pc[r] = "sleep" => /\ Len(sleeps[r]) = invocations[r]
                          /\ invocations[r] <= args[r].maxRetries
    /\ pc[r] = "done" => Len(sleeps[r]) = invocations[r] - 1
    /\ Cardinality({i \in DOMAIN children[r] :
                       children[r][i].promise = "pending"})
           <= IF pc[r] = "await" THEN 1 ELSE 0

\* The steps of the retry loop of request r: an attempt starts only when
\* none is running, a wait starts only as an attempt ends, and nothing follows
\* the return.
RetrySteps(r) ==
    /\ invocations'[r] # invocations[r]
          => /\ invocations'[r] = invocations[r] + 1
             /\ pc[r] \in {"idle", "sleep"}
    /\ sleeps'[r] # sleeps[r]
          => /\ Len(sleeps'[r]) = Len(sleeps[r]) + 1
             /\ pc'[r] = "sleep"
             /\ pc[r] = "await" \/ invocations'[r] # invocations[r]
    /\ pc[r] = "done"
          => /\ pc'[r] = "done"
             /\ invocations'[r] = invocations[r]
             /\ sleeps'[r] = sleeps[r]
             /\ result'[r] = result[r]

\* C27: for every maxRetries >= 0 and every sequence of attempt outcomes the
\* loop of getRecommendationsWithRetry makes at most maxRetries + 1 attempts,
\* one after the other; attempt i that raises with i < maxRetries is followed
\* by exactly one wait of 2^i seconds before attempt i + 1; no wait follows
\* the last attempt; neither a wait nor an attempt follows an attempt that
\* returns a result.
C27_RetryLoopMechanics ==
    /\ [](\A r \in Reqs : Started(r) => RetryBookkeeping(r))
    /\ [][\A r \in Reqs : RetrySteps(r)]_vars

\* A call with maxRetries = 2 that has ended after 3 attempts and the waits
\* of 1 s and 2 s.
C27_Witness ==
    \E r \in Reqs :
        /\ pc[r] = "done"
        /\ args[r].maxRetries = 2
        /\ invocations[r] = 3
        /\ sleeps[r] = <<1000, 2000>>

\* The promise of a child agrees with the event recorded as its settlement.
PromiseOutcome(r, i) ==
    LET ch == children[r][i] IN
    /\ ch.promise = "pending" <=> ch.settledBy = "none"
    /\ ch.promise = "resolved"
          => /\ ch.settledBy = "close"
             /\ Len(ch.stdoutData) = 1
             /\ ch.stdoutData[1].valid
    /\ ch.settledBy \in {"error", "timeout"} => ch.promise = "rejected"
    /\ ch.proc = "closed" => ch.timer # "armed"

\* One step seen from the promise of a child: the first of the events
\* settles it with its own outcome, a later event leaves it as it is, and the
\* timer never fires on a closed process.
PromiseSteps(r, i) ==
    LET ch == children[r][i]
        next == children'[r][i]
        closing == ch.proc # "closed" /\ next.proc = "closed"
        erroring == ch.proc = "running" /\ next.proc = "errored"
        firing == ch.timer = "armed" /\ next.timer = "fired"
        parsable == Len(ch.stdoutData) = 1 /\ ch.stdoutData[1].valid
        exitedZero == ch.proc = "running" /\ plan[r][i] \in {"ok", "garbage"}
    IN  /\ ch.promise # "pending"
              => /\ next.promise = ch.promise
                 /\ next.settledBy = ch.settledBy
        /\ (ch.promise = "pending" /\ closing)
              => /\ next.settledBy = "close"
                 /\ next.promise = IF exitedZero /\ parsable
                                      THEN "resolved" ELSE "rejected"
        /\ (ch.promise = "pending" /\ erroring)
              => next.settledBy = "error" /\ next.promise = "rejected"
        /\ (ch.promise = "pending" /\ firing)
              => next.settledBy = "timeout" /\ next.promise = "rejected"
        /\ (ch.promise = "pending" /\ next.promise # "pending")
              => closing \/ erroring \/ firing
        /\ ch.proc = "closed"
              => next.proc = "closed" /\ next.timer = ch.timer

\* C28: for every interleaving of the 'error' event, the 'close' event and
\* the 120 s timer of a process, the promise of callPythonModel settles once,
\* with the outcome of the first of them (close with code 0 and parsable
\* output resolves, every other event rejects); a later event never changes
\* it; and once the process has closed the timer is cancelled, so that kill is
\* never called on a closed process.
C28_PromiseSettlesOnce ==
    /\ [](\A r \in Reqs : \A i \in DOMAIN children[r] : PromiseOutcome(r, i))
    /\ [][\A r \in Reqs : \A i \in DOMAIN children[r] : PromiseSteps(r, i)]_vars

\* A process whose promise was rejected by the timer and that closed
\* afterwards, the promise as the timer left it.
C28_Witness ==
    \E r \in Reqs : \E i \in DOMAIN children[r] :
        /\ children[r][i].settledBy = "timeout"
        /\ children[r][i].promise = "rejected"
        /\ children[r][i].proc = "closed"

\* The exchange of request r in a state: one response at most, none before
\* the handler ran, and no call of the service behind a 400.
OneResponse(r) ==
    /\ http[r].sends <= 1
    /\ http[r].state = "sent" <=> http[r].sends = 1
    /\ http[r].state = "none" => pc[r] = "idle"
    /\ http[r].state = "pending" => pc[r] \in {"await", "sleep"}
    /\ (http[r].state = "sent" /\ http[r].status = 400)
          => pc[r] = "idle" /\ invocations[r] = 0
    /\ (http[r].state = "sent" /\ http[r].status # 400)
          => pc[r] \in {"done", "thrown"}

\* The steps of the exchange of request r: a response that was sent stays
\* as it is, and the service is called by the handler's first turn only.
ResponseSteps(r) ==
    /\ http[r].state = "sent" => http'[r] = http[r]
    /\ http[r].state # "none" => args'[r] = args[r]
    /\ (pc[r] = "idle" /\ pc'[r] # "idle") => http[r].state = "none"

\* C29: for every request and every outcome of the service call the handler
\* getRecommendations sends exactly one response: none of its paths ends
\* without one, none sends two, and it calls the service at most once, and not
\* at all once it has sent a 400.
C29_ExactlyOneResponse ==
    /\ [](\A r \in Reqs : OneResponse(r))
    /\ [][\A r \in Reqs : ResponseSteps(r)]_vars
    /\ \A r \in Reqs : (http[r].state = "pending") ~> (http[r].state = "sent")

\* A response sent after the handler has awaited a service call that waited
\* between two attempts.
C29_Witness ==
    \E r \in Reqs :
        /\ http[r].state = "sent"
        /\ http[r].sends = 1
        /\ sleeps[r] # <<>>

\* ---------------------------------------------------- claims: the client

\* The last search of App has ended, and how.
SearchEnded == retry.caller = "app" /\ retry.pc \in {"returned", "threw"}

SearchSucceeded ==
    /\ SearchEnded
    /\ retry.pc = "returned"
    /\ retry.value.success
    /\ retry.value.listed

\* C24 (as claimed; the code violates it): after a search that succeeded
\* with zero recommendations the list shows its empty state ("No recipes
\* found", try other ingredients) and not its error state, and it shows the
\* error state only after a search that failed.
C24_EmptyResultIsNoError ==
    SearchEnded
    => /\ (SearchSucceeded /\ retry.value.recommendations = <<>>)
              => Rendered(app) = "empty"
       /\ Rendered(app) = "error" => ~SearchSucceeded

\* A client error as the claim defines it: an ApiError with a 4xx status.
IsClientError(error) ==
    /\ error.kind = "ApiError"
    /\ error.statusCode >= 400
    /\ error.statusCode <= 499

\* The bookkeeping of withRetry in a state.
ClientRetryBookkeeping ==
    /\ retry.calls <= retry.maxRetries + 1
    /\ \A k \in DOMAIN retry.waits :
           retry.waits[k] = retry.baseDelay * 2 ^ (k - 1)
    /\ retry.pc = "calling" => Len(retry.waits) = retry.calls - 1
    /\ retry.pc = "waiting" => /\ Len(retry.waits) = retry.calls
                               /\ retry.calls <= retry.maxRetries
    /\ retry.pc \in {"returned", "threw"} => Len(retry.waits) = retry.calls - 1
    /\ retry.pc = "threw" => retry.thrown = retry.lastError

\* The steps of withRetry: fn is called only when no call is awaited; a
\* returned value ends the invocation; a failure is rethrown at once when it
\* is a client error and when it is that of the last attempt, and is followed
\* by a wait in every other case.
ClientRetrySteps ==
    /\ retry'.calls # retry.calls
          => /\ retry'.calls = retry.calls + 1
             /\ retry.pc \in {"idle", "waiting"}
    /\ (retry.pc = "calling" /\ retry'.pc = "returned")
          => retry'.calls = retry.calls /\ retry'.waits = retry.waits
    /\ (retry.pc = "calling" /\ retry'.pc = "threw")
          => /\ retry'.waits = retry.waits
             /\ IsClientError(retry'.thrown) \/ retry.attempt = retry.maxRetries
    /\ (retry.pc = "calling" /\ retry'.pc = "waiting")
          => /\ ~IsClientError(retry'.lastError)
             /\ retry.attempt < retry.maxRetries
             /\ retry'.waits =
                    Append(retry.waits, retry.baseDelay * 2 ^ retry.attempt)
    /\ retry.pc \in {"returned", "threw"} => retry' = retry

\* C25 (as claimed; the code violates it): withRetry(fn, maxRetries,
\* baseDelay) calls fn at most maxRetries + 1 times, one call after the other;
\* it returns the first successful result without a further call; it rethrows
\* at once, without wait or retry, when fn fails with a client error (an
\* ApiError with a 4xx status); after any other failure it waits baseDelay *
\* 2^attempt before the next attempt; and after the failure of the last
\* attempt it throws the last error without waiting.
C25_ClientRetryMechanics ==
    /\ []ClientRetryBookkeeping
    /\ [][ClientRetrySteps]_vars

\* The list of IngredientInput is well formed: no two entries equal ignoring
\* case, every entry trimmed and of 2 characters at least.
ListWellFormed(ingredients) ==
    /\ \A i, j \in DOMAIN ingredients :
           i # j => ToLowerCase(ingredients[i]) # ToLowerCase(ingredients[j])
    /\ \A i \in DOMAIN ingredients :
           /\ Trim(ingredients[i]) = ingredients[i]
           /\ Len(ingredients[i]) >= 2

\* The input that an add must reject: empty once trimmed, too short, or a
\* duplicate of an entry ignoring case.
MustReject(inp) ==
    LET t == Trim(inp.currentInput) IN
    \/ Len(t) < 2
    \/ \E i \in DOMAIN inp.ingredients :
           ToLowerCase(inp.ingredients[i]) = ToLowerCase(t)

\* C26: after any sequence of addIngredient, removeIngredient and clearAll
\* the list of IngredientInput holds no two entries equal ignoring case, and
\* every entry is a trimmed string of 2 characters at least; an add that is
\* rejected (empty, too short, duplicate) leaves the list unchanged and sets
\* an error message, and no step adds an entry that must be rejected.
C26_IngredientListWellFormed ==
    /\ [](/\ ListWellFormed(input.ingredients)
          /\ MustReject(input)
                => /\ AddIngredient(input).ingredients = input.ingredients
                   /\ AddIngredient(input).error # ""
          /\ ~MustReject(input)
                => AddIngredient(input).ingredients =
                       Append(input.ingredients, Trim(input.currentInput)))
    /\ [][MustReject(input)
             => Len(input'.ingredients) <= Len(input.ingredients)]_vars

\* An add of "AB" rejected as a duplicate of the entry "ab".
C26_Witness ==
    /\ input.currentInput = <<"A", "B">>
    /\ \E i \in DOMAIN input.ingredients : input.ingredients[i] = <<"a", "b">>
    /\ input.error = "This ingredient is already in the list"

\* C30: in App a search started with a non-empty list sets isLoading,
\* clears error and recipes and issues the request; whatever the outcome of
\* the request, isLoading becomes false again, and in the state reached then
\* either recipes is non-empty and error is null, or error is set and recipes
\* is empty. With an empty list handleSearch sets an error, does not set
\* isLoading and issues no request, and no search runs with an empty list.
C30_SearchAlwaysEnds ==
    /\ [][/\ (~app.isLoading /\ app'.isLoading)
                => /\ Len(app.ingredients) # 0
                   /\ app'.error = Null
                   /\ app'.recipes = <<>>
                   /\ retry'.pc = "calling" /\ retry'.calls = 1
          /\ (app.isLoading /\ ~app'.isLoading)
                => \/ Len(app'.recipes) > 0 /\ app'.error = Null
                   \/ Shown(app'.error) /\ app'.recipes = <<>>]_vars
    /\ [](/\ Len(app.ingredients) = 0
                => /\ Shown(HandleSearch(app).error)
                   /\ ~HandleSearch(app).isLoading
                   /\ ~SearchRequests(app)
          /\ Len(app.ingredients) # 0
                => /\ HandleSearch(app).isLoading
                   /\ SearchRequests(app)
          /\ app.isLoading <=> retry.pc \in {"calling", "waiting"}
          /\ app.isLoading => Len(app.ingredients) # 0)
    /\ app.isLoading ~> ~app.isLoading

\* A search that ended with its retries exhausted: three calls, the error
\* set, no recipes, not loading.
C30_Witness ==
    /\ SearchEnded
    /\ retry.pc = "threw"
    /\ retry.calls = 3
    /\ ~app.isLoading
    /\ Shown(app.error)
    /\ app.recipes = <<>>

====
